---- MODULE Spec2Model ----
(***************************************************************************)
(* KEON: the serializer (ser.rs), the lexer (lexer.rs), the deserializer   *)
(* (de.rs) and the dynamic Value tree (value.rs, value/ser.rs,             *)
(* value/de.rs).                                                           *)
(*                                                                         *)
(* Text is a sequence of Unicode scalar values (code points), so that      *)
(* escapes, character classes and byte/char conversions are arithmetic.    *)
(* Positions are 0-based counts of characters already consumed.            *)
(***************************************************************************)
EXTENDS Integers, Sequences, FiniteSets, TLC

\* ------------------------------------------------------------------ text

\* `let x = e; b`: e is evaluated once and b sees its value as x.
Let(e, b(_)) == b(e)

At(src, p) == IF p < Len(src) THEN src[p + 1] ELSE -1

Slice(src, a, b) == SubSeq(src, a + 1, b)

StartsWith(src, p, w) ==
    /\ p + Len(w) <= Len(src)
    /\ SubSeq(src, p + 1, p + Len(w)) = w

\* The first position q >= p whose character is not Good (or the end).
RunEnd(src, p, Good(_)) ==
    CHOOSE q \in p..Len(src) :
        /\ q = Len(src) \/ ~Good(src[q + 1])
        /\ \A r \in p..(q - 1) : Good(src[r + 1])

\* The first position q >= p that holds character c, or -1.
Find(src, p, c) ==
    IF \E q \in p..(Len(src) - 1) : src[q + 1] = c
    THEN CHOOSE q \in p..(Len(src) - 1) :
            src[q + 1] = c /\ \A r \in p..(q - 1) : src[r + 1] # c
    ELSE -1

Utf8Len(c) == IF c < 128 THEN 1 ELSE IF c < 2048 THEN 2 ELSE IF c < 65536 THEN 3 ELSE 4

\* The length of s in UTF-8: one byte per character and one more for each
\* length class that the character passes.
ByteLen(s) ==
    Len(s) + Cardinality({i \in 1..Len(s) : Utf8Len(s[i]) >= 2})
           + Cardinality({i \in 1..Len(s) : Utf8Len(s[i]) >= 3})
           + Cardinality({i \in 1..Len(s) : Utf8Len(s[i]) >= 4})

IsDigit(c) == c \in 48..57
IsHex(c) == c \in (48..57) \cup (65..70) \cup (97..102)
HexVal(c) == IF c \in 48..57 THEN c - 48 ELSE IF c \in 65..70 THEN c - 55 ELSE c - 87
HexLower(n) == IF n < 10 THEN 48 + n ELSE 87 + n

\* unicode_ident, restricted to ASCII letters and the CJK unified ideographs.
is_xid_start(c) == c \in (65..90) \cup (97..122) \cup (19968..40959)
is_xid_continue(c) == is_xid_start(c) \/ IsDigit(c) \/ c = 95

IsBlank(c) == c \in {9, 11, 12, 13, 32}

\* ------------------------------------------------- lexer: TokenEscape

IsPlain(c) == c \notin {39, 34, 92, 10}
IsPlainAscii(c) == c < 128 /\ IsPlain(c)
IsBacktick(c) == c = 96
IsHexOrUnderscore(c) == IsHex(c) \/ c = 95

\* `\u{` at p..p+2: the position just past the closing brace of
\* \\u\{([0-9A-Fa-f]_*)+\}, or -1.
UnicodeEscapeEnd(src, p) ==
    LET q == RunEnd(src, p + 3, IsHexOrUnderscore)
    IN  IF IsHex(At(src, p + 3)) /\ At(src, q) = 125 THEN q + 1 ELSE -1

EscTok(t, end, n, err) == [t |-> t, end |-> end, n |-> n, err |-> err]

\* One token of the TokenEscape sub-lexer at p: the longest match, ties
\* broken by priority.  "Error" carries the error kind; a backslash that
\* starts no pattern at all gives the lexer's default error.
TokenEscape(src, p) ==
    LET c == At(src, p)
        c1 == At(src, p + 1)
        c2 == At(src, p + 2)
        c3 == At(src, p + 3)
    IN  IF c = -1 THEN EscTok("Eof", p, 0, "")
        ELSE IF c = 10 THEN EscTok("Newline", p + 1, 0, "")
        ELSE IF c = 39 THEN EscTok("Prime", p + 1, 0, "")
        ELSE IF c = 34 THEN
            LET q == RunEnd(src, p + 1, IsBacktick)
            IN  EscTok("Quote", q, q - (p + 1), "")
        ELSE IF c = 92 THEN
            IF c1 = 117 /\ c2 = 123 /\ UnicodeEscapeEnd(src, p) # -1
                THEN EscTok("EscapeUnicode", UnicodeEscapeEnd(src, p), 0, "")
            ELSE IF c1 = 120 /\ c2 \in 48..55 /\ IsHex(c3)
                THEN EscTok("EscapeAscii", p + 4, 0, "")
            ELSE IF c1 = 120 /\ IsHex(c2) /\ IsHex(c3)
                THEN EscTok("EscapeByte", p + 4, 0, "")
            ELSE IF c1 \in {34, 39, 92, 110, 116, 114, 48}
                THEN EscTok("EscapeAscii", p + 2, 0, "")
            ELSE IF c1 # -1 /\ c1 # 10
                THEN EscTok("Error", p + 2, 0, "InvalidEscape")
            ELSE EscTok("Error", p + 1, 0, "DefaultError")
        ELSE
            LET q == RunEnd(src, p, IsPlain)
                a == RunEnd(src, p, IsPlainAscii)
            IN  IF q > a THEN EscTok("NoEscapeUtf8", q, 0, "")
                ELSE EscTok("NoEscapeAscii", a, 0, "")

\* esc::byte: `\xHH`, the token starting at p.
esc_byte(src, p) == 16 * HexVal(At(src, p + 2)) + HexVal(At(src, p + 3))

\* esc::ascii: the token starting at p.
esc_ascii(src, p) ==
    LET c1 == At(src, p + 1)
    IN  CASE c1 = 92 -> 92
          [] c1 = 34 -> 34
          [] c1 = 39 -> 39
          [] c1 = 110 -> 10
          [] c1 = 116 -> 9
          [] c1 = 114 -> 13
          [] c1 = 48 -> 0
          [] OTHER -> 16 * HexVal(At(src, p + 2)) + HexVal(At(src, p + 3))

RECURSIVE HexFold(_, _)
\* The value of a run of hex digits, saturating above the scalar range.
HexFold(ds, acc) ==
    IF ds = <<>> THEN acc
    ELSE HexFold(Tail(ds), IF acc > 1114111 THEN acc ELSE 16 * acc + HexVal(Head(ds)))

\* esc::unicode: the token src[p..end); -1 for InvalidUnicodeEscape (an
\* underscore among the digits, a surrogate, or a value above 0x10FFFF).
esc_unicode(src, p, end) ==
    LET ds == Slice(src, p + 3, end - 1)
        v == HexFold(ds, 0)
    IN  IF (\E i \in 1..Len(ds) : ds[i] = 95) \/ v > 1114111 \/ v \in 55296..57343
        THEN -1 ELSE v

\* ---------------------------------------------- lexer: literal callbacks

\* What a literal callback returns: the literal (kind lk, payload v: code
\* points, bytes or numbers) or the error, the end of the token, and the
\* line counters (extras) as the sub-lexer's newline callback left them.
LitOk(lk, v, end, line, line_start) ==
    [ok |-> TRUE, lk |-> lk, v |-> v, err |-> "", end |-> end,
     line |-> line, line_start |-> line_start]

LitErr(err, end, line, line_start) ==
    [ok |-> FALSE, lk |-> "", v |-> <<>>, err |-> err, end |-> end,
     line |-> line, line_start |-> line_start]

\* cb::char; p is the position just past the opening apostrophe.
cb_char(src, p, line, line_start) ==
    Let(TokenEscape(src, p), LAMBDA t :
    Let(TokenEscape(src, t.end), LAMBDA t2 :
    LET run == Slice(src, p, t.end)
        kind ==
            CASE t.t = "Newline" -> "UnexpectedNewline"
              [] t.t = "Prime" -> "InvalidCharacterTooLess"
              [] t.t = "Quote" -> IF t.n = 0 THEN "" ELSE "InvalidCharacterTooMany"
              [] t.t \in {"NoEscapeUtf8", "NoEscapeAscii"} ->
                    IF Len(run) > 1 THEN "InvalidCharacterTooMany" ELSE ""
              [] t.t = "EscapeByte" -> "InvalidAsciiEscape"
              [] t.t = "EscapeAscii" -> ""
              [] t.t = "EscapeUnicode" ->
                    IF esc_unicode(src, p, t.end) = -1 THEN "InvalidUnicodeEscape" ELSE ""
              [] OTHER -> ""
        ch ==
            CASE t.t = "Quote" -> 34
              [] t.t \in {"NoEscapeUtf8", "NoEscapeAscii"} -> run[1]
              [] t.t = "EscapeAscii" -> esc_ascii(src, p)
              [] OTHER -> esc_unicode(src, p, t.end)
        \* the newline callback of the first token
        line1 == IF t.t = "Newline" THEN line + 1 ELSE line
        ls1 == IF t.t = "Newline" THEN t.end ELSE line_start
        line2 == IF t2.t = "Newline" THEN line1 + 1 ELSE line1
        ls2 == IF t2.t = "Newline" THEN t2.end ELSE ls1
    IN  IF t.t = "Eof" THEN LitErr("UnexpectedEof", p, line, line_start)
        ELSE IF t.t = "Error" THEN LitErr(t.err, p, line, line_start)
        ELSE IF kind # "" THEN LitErr(kind, t.end, line1, ls1)
        ELSE IF t2.t = "Error" THEN LitErr(t2.err, t.end, line1, ls1)
        ELSE IF t2.t = "Prime" THEN LitOk("Char", <<ch>>, t.end + 1, line1, ls1)
        ELSE LitErr("UnexpectedEof", t.end, line2, ls2)))

RECURSIVE cb_quoted(_, _, _, _, _, _)
\* cb::string (bytes = FALSE) and cb::bytes (bytes = TRUE): the loop over
\* TokenEscape tokens from p, with the decoded buffer s so far.
cb_quoted(src, p, s, bytes, line, line_start) ==
    Let(TokenEscape(src, p), LAMBDA t :
    LET u == IF t.t = "EscapeUnicode" THEN esc_unicode(src, p, t.end) ELSE 0
    IN  CASE t.t = "Eof" -> LitErr("UnexpectedEof", p, line, line_start)
          [] t.t = "Error" -> LitErr(t.err, p, line, line_start)
          [] t.t = "Newline" -> LitErr("UnexpectedNewline", t.end, line + 1, t.end)
          [] t.t = "Prime" ->
                cb_quoted(src, t.end, Append(s, 39), bytes, line, line_start)
          [] t.t = "Quote" ->
                IF t.n = 0
                THEN LitOk(IF bytes THEN "ByteBuf" ELSE "String", s, t.end, line, line_start)
                ELSE LitErr("UnbalancedLiteralClose", t.end, line, line_start)
          [] t.t = "NoEscapeUtf8" ->
                IF bytes THEN LitErr("UnexpectedNonAscii", t.end, line, line_start)
                ELSE cb_quoted(src, t.end, s \o Slice(src, p, t.end), bytes, line, line_start)
          [] t.t = "NoEscapeAscii" ->
                cb_quoted(src, t.end, s \o Slice(src, p, t.end), bytes, line, line_start)
          [] t.t = "EscapeByte" ->
                IF bytes
                THEN cb_quoted(src, t.end, Append(s, esc_byte(src, p)), bytes, line, line_start)
                ELSE LitErr("InvalidAsciiEscape", t.end, line, line_start)
          [] t.t = "EscapeAscii" ->
                cb_quoted(src, t.end, Append(s, esc_ascii(src, p)), bytes, line, line_start)
          [] t.t = "EscapeUnicode" ->
                IF bytes THEN LitErr("UnexpectedUnicodeEscape", t.end, line, line_start)
                ELSE IF u = -1 THEN LitErr("InvalidUnicodeEscape", t.end, line, line_start)
                ELSE cb_quoted(src, t.end, Append(s, u), bytes, line, line_start))

\* ---- data_encoding: HEXUPPER_PERMISSIVE, BASE32_NOPAD, BASE64URL_NOPAD

\* Bits per symbol of a flavor.
SymbolBits(flavor) ==
    CASE flavor = "Base16" -> 4 [] flavor = "Base32" -> 5 [] flavor = "Base64" -> 6

\* The character of symbol value n.
SymbolChar(flavor, n) ==
    CASE flavor = "Base16" -> IF n < 10 THEN 48 + n ELSE 55 + n
      [] flavor = "Base32" -> IF n < 26 THEN 65 + n ELSE 24 + n
      [] flavor = "Base64" ->
            IF n < 26 THEN 65 + n ELSE IF n < 52 THEN 71 + n
            ELSE IF n < 62 THEN n - 4 ELSE IF n = 62 THEN 45 ELSE 95

\* The symbol value of character c, or -1.
SymbolValue(flavor, c) ==
    IF flavor = "Base16" /\ c \in 97..102 THEN c - 87
    ELSE IF \E n \in 0..63 : n < 2 ^ SymbolBits(flavor) /\ SymbolChar(flavor, n) = c
    THEN CHOOSE n \in 0..63 : n < 2 ^ SymbolBits(flavor) /\ SymbolChar(flavor, n) = c
    ELSE -1

\* Bit i (0-based, most significant first) of a sequence of w-bit units.
BitAt(units, w, i) ==
    IF i >= w * Len(units) THEN 0
    ELSE (units[(i \div w) + 1] \div (2 ^ (w - 1 - (i % w)))) % 2

RECURSIVE BitsValue(_, _, _, _)
\* The number held by the n bits from bit i on.
BitsValue(units, w, i, n) ==
    IF n = 0 THEN 0
    ELSE 2 * BitsValue(units, w, i, n - 1) + BitAt(units, w, i + n - 1)

\* Encoding::encode without padding.
BaseEncode(flavor, bytes) ==
    LET w == SymbolBits(flavor)
        n == (8 * Len(bytes) + w - 1) \div w
    IN  [j \in 1..n |-> SymbolChar(flavor, BitsValue(bytes, 8, w * (j - 1), w))]

\* Encoding::decode: <<TRUE, bytes>>, or <<FALSE, <<>>>> on a character
\* outside the alphabet, an impossible length or non-zero trailing bits.
BaseDecode(flavor, text) ==
    LET w == SymbolBits(flavor)
        syms == [j \in 1..Len(text) |-> SymbolValue(flavor, text[j])]
        nbits == w * Len(text)
        n == nbits \div 8
        rest == nbits % 8
    IN  IF (\E j \in 1..Len(text) : syms[j] = -1)
           \/ rest >= w
           \/ BitsValue(syms, w, 8 * n, rest) # 0
        THEN <<FALSE, <<>>>>
        ELSE <<TRUE, [j \in 1..n |-> BitsValue(syms, w, 8 * (j - 1), 8)]>>

\* cb::bytes_encoding; p is the position just past the opening quote.
cb_bytes_encoding(src, p, flavor, line, line_start) ==
    Let(Find(src, p, 34), LAMBDA n :
    Let(BaseDecode(flavor, Slice(src, p, n)), LAMBDA dec :
        IF n = -1 THEN LitErr("UnexpectedEof", p, line, line_start)
        ELSE IF ~dec[1] THEN LitErr("InvalidBytesEncoding", n + 1, line, line_start)
        ELSE LitOk("ByteBuf", dec[2], n + 1, line, line_start)))

\* ------------------------------------------------------ lexer: numbers

\* The width of the 64-bit integers in this model.
WORD == 8
U64_MAX == 2 ^ WORD - 1
I64_MAX == 2 ^ (WORD - 1) - 1
I64_MIN == -(2 ^ (WORD - 1))

IsDigitOrUnderscore(c) == IsDigit(c) \/ c = 95

RECURSIVE DecFold(_, _)
\* The value of a run of decimal digits, saturating above the u64 range.
DecFold(ds, acc) ==
    IF ds = <<>> THEN acc
    ELSE DecFold(Tail(ds), IF acc > U64_MAX THEN acc ELSE 10 * acc + (Head(ds) - 48))

RECURSIVE DecText(_)
\* lexical_core::write of a natural number.
DecText(n) == IF n < 10 THEN <<48 + n>> ELSE Append(DecText(n \div 10), 48 + (n % 10))

\* The end of ([0-9]_*)+ at q, or -1.
DecEnd(src, q) == IF IsDigit(At(src, q)) THEN RunEnd(src, q, IsDigitOrUnderscore) ELSE -1

\* The end of [Ee][+-]?_*([0-9]_*)+ at x, or -1.
ExpEnd(src, x) ==
    LET y == IF At(src, x + 1) \in {43, 45} THEN x + 2 ELSE x + 1
        z == RunEnd(src, y, LAMBDA c : c = 95)
    IN  IF x # -1 /\ At(src, x) \in {69, 101} THEN DecEnd(src, z) ELSE -1

\* The end of the float pattern
\*   ([0-9]_*)+((\.([0-9]_*)+)?[Ee][+-]?_*([0-9]_*)+|\.(([0-9]_*)+)?)
\* at q (after the optional sign), or -1.
FloatEnd(src, q) ==
    Let(DecEnd(src, q), LAMBDA d :
    Let(d # -1 /\ At(src, d) = 46, LAMBDA dot :
    Let(IF dot THEN DecEnd(src, d + 1) ELSE -1, LAMBDA f :
    Let(ExpEnd(src, f), LAMBDA e2 :
        IF e2 # -1 THEN e2
        ELSE IF f # -1 THEN f
        ELSE IF dot THEN d + 1
        ELSE ExpEnd(src, d)))))

\* A cb::integral that wraps a number that does not fit.
cb_integral_wrapping(i, end, line, line_start) ==
    Let(i[1] = 45, LAMBDA neg :
    Let(DecFold(IF neg THEN Tail(i) ELSE i, 0), LAMBDA n :
        IF neg THEN LitOk("Int", <<((I64_MAX + 1 - n) % 2 ^ WORD) + I64_MIN>>,
                          end, line, line_start)
        ELSE LitOk("UInt", <<n % 2 ^ WORD>>, end, line, line_start)))

\* cb::integral for Radix::Dec on the token text i: parse_with_options as
\* i64 when the text starts with `-`, as u64 otherwise.  The number format
\* has no digit separator, so an underscore is an invalid digit.
cb_integral(i, end, line, line_start) ==
    Let(i[1] = 45, LAMBDA neg :
    Let(IF neg THEN Tail(i) ELSE i, LAMBDA ds :
    Let(DecFold(ds, 0), LAMBDA n :
        IF \E j \in 1..Len(ds) : ds[j] = 95
            THEN LitErr("InvalidNumber", end, line, line_start)
        ELSE IF neg THEN
            IF -n < I64_MIN THEN LitErr("InvalidNumber", end, line, line_start)
            ELSE LitOk("Int", <<-n>>, end, line, line_start)
        ELSE IF n > U64_MAX THEN LitErr("InvalidNumber", end, line, line_start)
        ELSE LitOk("UInt", <<n>>, end, line, line_start))))

RECURSIVE FloatNorm(_, _)
\* A finite float is m / 10^e, kept with the fewest fractional digits.
FloatNorm(m, e) == IF e > 0 /\ m % 10 = 0 THEN FloatNorm(m \div 10, e - 1) ELSE <<m, e>>

\* A float value: <<class, negative, m, e>>, class 0 finite, 1 inf, 2 NaN.
FloatVal(cls, neg, m, e) == <<cls, IF neg /\ cls # 2 THEN 1 ELSE 0>> \o FloatNorm(m, e)

\* cb::floating on the token text i.
cb_floating(i, end, line, line_start) ==
    Let(i[1] = 45, LAMBDA neg :
    Let(IF neg THEN Tail(i) ELSE i, LAMBDA t :
    Let(DecEnd(t, 0), LAMBDA d :
    Let(d # -1 /\ At(t, d) = 46, LAMBDA dot :
    Let(IF dot /\ DecEnd(t, d + 1) # -1 THEN DecEnd(t, d + 1) ELSE IF dot THEN d + 1 ELSE d,
        LAMBDA f :
    Let(IF dot THEN Slice(t, d + 1, f) ELSE <<>>, LAMBDA frac :
    Let(f < Len(t), LAMBDA hasExp :
    Let(hasExp /\ At(t, f + 1) = 45, LAMBDA eneg :
    Let(IF hasExp THEN Slice(t, RunEnd(t, f + 1, LAMBDA c : c \in {43, 45, 95}), Len(t))
        ELSE <<>>, LAMBDA es :
    Let((IF eneg THEN -1 ELSE 1) * DecFold(es, 0), LAMBDA x :
    Let(DecFold(Slice(t, 0, d) \o frac, 0), LAMBDA m :
    Let(IF x >= Len(frac)
        THEN FloatVal(0, neg, m * 10 ^ (x - Len(frac)), 0)
        ELSE FloatVal(0, neg, m, Len(frac) - x), LAMBDA v :
        IF t = <<105, 110, 102>> THEN LitOk("Float", FloatVal(1, neg, 0, 0), end, line, line_start)
        ELSE IF t = <<78, 97, 78>> THEN LitOk("Float", FloatVal(2, neg, 0, 0), end, line, line_start)
        ELSE IF \E j \in 1..Len(t) : t[j] = 95
            THEN LitErr("InvalidNumber", end, line, line_start)
        ELSE LitOk("Float", v, end, line, line_start)))))))))))))

\* --------------------------------------------------- lexer: Token

KwTrue == <<116, 114, 117, 101>>
KwFalse == <<102, 97, 108, 115, 101>>
KwInf == <<105, 110, 102>>
KwNaN == <<78, 97, 78>>

\* What Lexer::next leaves behind: r is "tok" (Some(Ok)), "err" (Some(Err))
\* or "eof" (None); k the token kind, lk and v the literal's kind and the
\* payload of a literal or an identifier; start and end the span; line and
\* line_start the extras.
LexRes(r, k, lk, v, err, start, end, line, line_start) ==
    [r |-> r, k |-> k, lk |-> lk, v |-> v, err |-> err, start |-> start,
     end |-> end, line |-> line, line_start |-> line_start]

Punct(k, start, end, line, line_start) ==
    LexRes("tok", k, "", <<>>, "", start, end, line, line_start)

\* A literal callback's result as the lexer's.
OfLit(l, start) ==
    IF l.ok THEN LexRes("tok", "Literal", l.lk, l.v, "", start, l.end, l.line, l.line_start)
    ELSE LexRes("err", "", "", <<>>, l.err, start, l.end, l.line, l.line_start)

\* cb::ident: the identifier whose first character is at s; the token
\* itself starts at start (s - 1 for a raw identifier).
cb_ident(src, start, s, line, line_start) ==
    LET c == At(src, s)
        end == RunEnd(src, s + 1, is_xid_continue)
    IN  IF is_xid_start(c) \/ c = 95
        THEN LexRes("tok", "Ident", "", Slice(src, s, end), "", start, end, line, line_start)
        ELSE LexRes("err", "", "", <<>>, "UnexpectedToken", start, s + 1, line, line_start)

RECURSIVE cb_block_comment(_, _, _, _, _)
\* cb::block_comment: the loop over TokenComment tokens from p with ctr
\* open comments; end is -1 when the input ends inside the comment.
cb_block_comment(src, p, ctr, line, line_start) ==
    IF p >= Len(src) THEN [end |-> -1, line |-> line, line_start |-> line_start]
    ELSE IF StartsWith(src, p, <<47, 42>>)
        THEN cb_block_comment(src, p + 2, ctr + 1, line, line_start)
    ELSE IF StartsWith(src, p, <<42, 47>>)
        THEN IF ctr = 1 THEN [end |-> p + 2, line |-> line, line_start |-> line_start]
             ELSE cb_block_comment(src, p + 2, ctr - 1, line, line_start)
    ELSE IF At(src, p) = 10 THEN cb_block_comment(src, p + 1, ctr, line + 1, p + 1)
    ELSE cb_block_comment(src, p + 1, ctr, line, line_start)

\* The number token at p (a digit, or `-` before a digit): the longest of
\* the decimal integer and the float pattern.
NumberToken(src, p, line, line_start) ==
    Let(IF At(src, p) = 45 THEN p + 1 ELSE p, LAMBDA q :
    Let(DecEnd(src, q), LAMBDA d :
    Let(FloatEnd(src, q), LAMBDA f :
        IF f > d THEN OfLit(cb_floating(Slice(src, p, f), f, line, line_start), p)
        ELSE OfLit(cb_integral(Slice(src, p, d), d, line, line_start), p))))

\* ---------------------------------------------- lexer: TokenNoEscape

\* TokenNoEscape at position p: Quote with its n backticks, a run without
\* quotes (NoEscapeAscii or NoEscapeUtf8), or the token of a newline, which
\* wins over the runs when the run is that newline alone and is skipped.
TokenNoEscape(src, p) ==
    LET stop == Find(src, p, 34)
        run == IF stop = -1 THEN Len(src) ELSE stop
    IN  CASE p >= Len(src) -> EscTok("Eof", p, 0, "")
          [] At(src, p) = 34 ->
                EscTok("Quote", RunEnd(src, p + 1, IsBacktick),
                       RunEnd(src, p + 1, IsBacktick) - (p + 1), "")
          [] Slice(src, p, run) = <<10>> -> EscTok("Newline", run, 0, "")
          [] \A i \in (p + 1)..run : src[i] < 128 -> EscTok("NoEscapeAscii", run, 0, "")
          [] OTHER -> EscTok("NoEscapeUtf8", run, 0, "")

RECURSIVE cb_raw_string(_, _, _, _, _, _, _)
\* cb::raw_string with q backticks: j is the position just past the
\* opening quote (the remainder), p the position of the sub-lexer and len
\* the sum of the lengths of the tokens it returned; a skipped newline
\* token is not among them.
cb_raw_string(src, j, p, q, len, line, line_start) ==
    Let(TokenNoEscape(src, p), LAMBDA t :
    Let(len + (t.end - p), LAMBDA len1 :
        CASE t.t = "Eof" -> LitErr("UnexpectedEof", j, line, line_start)
          [] t.t = "Newline" -> cb_raw_string(src, j, t.end, q, len, line + 1, t.end)
          [] t.t = "Quote" /\ t.n = q ->
                LitOk("Str", Slice(src, j, j + len1 - (t.end - p)), j + len1, line, line_start)
          [] t.t = "Quote" /\ t.n > q -> LitErr("UnbalancedLiteralClose", j, line, line_start)
          [] OTHER -> cb_raw_string(src, j, t.end, q, len1, line, line_start)))

\* --------------------------------------------- lexer: TokenParagraph

\* char::is_whitespace.
IsWhite(c) == c \in (9..13) \cup {32, 133, 160, 5760, 8232, 8233, 8239, 8287, 12288}
                   \cup (8192..8202)

\* A trim that keeps the blank after the marker.
trim_marker_only(s) ==
    LET keep == {i \in 1..Len(s) : ~IsWhite(s[i])}
        a == CHOOSE i \in keep : \A k \in keep : i <= k
        b == CHOOSE i \in keep : \A k \in keep : k <= i
    IN  IF keep = {} THEN <<>> ELSE SubSeq(s, a + 1, b)

\* trim of cb::paragraph: the slice without the white space around it,
\* without its first character (the marker) and without one blank after it.
trim(s) ==
    LET keep == {i \in 1..Len(s) : ~IsWhite(s[i])}
        a == CHOOSE i \in keep : \A k \in keep : i <= k
        b == CHOOSE i \in keep : \A k \in keep : k <= i
        t == SubSeq(s, a + 1, b)
    IN  IF keep = {} THEN <<>>
        ELSE IF t # <<>> /\ t[1] = 32 THEN Tail(t) ELSE t

\* TokenParagraph at position p: the kind of the line that starts with the
\* newline at p and its end, Leave when the line does not go on with a
\* marker, Eof at the end of the input.
TokenParagraph(src, p) ==
    LET b == RunEnd(src, p + 1, IsBlank)
        nl == Find(src, p + 1, 10)
        end == IF nl = -1 THEN Len(src) ELSE nl
    IN  CASE p >= Len(src) -> EscTok("Eof", p, 0, "")
          [] At(src, b) = 124 -> EscTok("SpaceJoinedLine", end, 0, "")
          [] At(src, b) = 60 -> EscTok("JoinedLine", end, 0, "")
          [] At(src, b) = 96 -> EscTok("AsIsNewLine", end, 0, "")
          [] OTHER -> EscTok("Leave", b, 0, "")

RECURSIVE ParagraphLines(_, _, _, _, _, _)
\* The loop of cb::paragraph from the continuation line at p, with the
\* text s so far and the flag newlined.
ParagraphLines(src, p, s, newlined, line, line_start) ==
    Let(TokenParagraph(src, p), LAMBDA t :
    Let(trim(Slice(src, p, t.end)), LAMBDA text :
        CASE t.t \in {"Eof", "Leave"} -> LitOk("String", s, p, line, line_start)
          [] t.t = "AsIsNewLine" ->
                ParagraphLines(src, t.end, s \o <<10>> \o text, text = <<>>,
                               line + 1, line_start)
          [] text = <<>> ->
                ParagraphLines(src, t.end, IF newlined THEN s ELSE Append(s, 10), TRUE,
                               line + 1, line_start)
          [] OTHER ->
                ParagraphLines(src, t.end,
                               (IF t.t = "SpaceJoinedLine" /\ ~newlined
                                THEN Append(s, 32) ELSE s) \o text,
                               FALSE, line + 1, line_start)))

\* cb::paragraph; p is the position of the `|` that opens the paragraph.
cb_paragraph(src, p, line, line_start) ==
    LET nl == Find(src, p, 10)
        end == IF nl = -1 THEN Len(src) ELSE nl
        first == trim(Slice(src, p, end))
    IN  IF TokenParagraph(src, end).t \in {"Eof", "Leave"}
        THEN LitOk("Str", first, end, line, line_start)
        ELSE ParagraphLines(src, end, first, FALSE, line, line_start)

RECURSIVE Lex(_, _, _, _)
\* Lexer<Token>::next at position p: skips blanks, newlines and comments,
\* then takes the longest match.  Raw bytes and the radix integers are not
\* part of this model.
Lex(src, p, line, line_start) ==
    Let(At(src, p), LAMBDA c :
    Let(At(src, p + 1), LAMBDA c1 :
    Let(IF c = 45 THEN p + 1 ELSE p, LAMBDA q :
    Let(cb_block_comment(src, p + 2, 1, line, line_start), LAMBDA bc :
    Let(Find(src, p + 2, 10), LAMBDA nl :
        CASE c = -1 -> LexRes("eof", "", "", <<>>, "", Len(src), Len(src), line, line_start)
          [] c = 10 -> Lex(src, p + 1, line + 1, p + 1)
          [] IsBlank(c) -> Lex(src, RunEnd(src, p, IsBlank), line, line_start)
          [] c = 47 /\ c1 = 47 ->
                Lex(src, IF nl = -1 THEN Len(src) ELSE nl, line, line_start)
          [] c = 47 /\ c1 = 42 ->
                IF bc.end = -1
                THEN LexRes("err", "", "", <<>>, "UnexpectedEof", p, Len(src), bc.line, bc.line_start)
                ELSE Lex(src, bc.end, bc.line, bc.line_start)
          [] c = 44 -> Punct("Comma", p, p + 1, line, line_start)
          [] c = 58 /\ c1 = 58 -> Punct("PathSep", p, p + 2, line, line_start)
          [] c = 58 /\ c1 # 58 -> Punct("Colon", p, p + 1, line, line_start)
          [] c = 37 -> Punct("Percent", p, p + 1, line, line_start)
          [] c = 63 -> Punct("Question", p, p + 1, line, line_start)
          [] c = 61 /\ c1 = 62 -> Punct("FatArrow", p, p + 2, line, line_start)
          [] c = 40 -> Punct("Paren_", p, p + 1, line, line_start)
          [] c = 41 -> Punct("_Paren", p, p + 1, line, line_start)
          [] c = 91 -> Punct("Brack_", p, p + 1, line, line_start)
          [] c = 93 -> Punct("_Brack", p, p + 1, line, line_start)
          [] c = 123 -> Punct("Brace_", p, p + 1, line, line_start)
          [] c = 125 -> Punct("_Brace", p, p + 1, line, line_start)
          [] c = 39 -> OfLit(cb_char(src, p + 1, line, line_start), p)
          [] c = 34 -> OfLit(cb_quoted(src, p + 1, <<>>, FALSE, line, line_start), p)
          [] c = 98 /\ c1 = 34 ->
                OfLit(cb_quoted(src, p + 2, <<>>, TRUE, line, line_start), p)
          [] StartsWith(src, p, <<98, 49, 54, 34>>) ->
                OfLit(cb_bytes_encoding(src, p + 4, "Base16", line, line_start), p)
          [] StartsWith(src, p, <<98, 51, 50, 34>>) ->
                OfLit(cb_bytes_encoding(src, p + 4, "Base32", line, line_start), p)
          [] StartsWith(src, p, <<98, 54, 52, 34>>) ->
                OfLit(cb_bytes_encoding(src, p + 4, "Base64", line, line_start), p)
          [] c = 96 /\ At(src, RunEnd(src, p, IsBacktick)) = 34 ->
                OfLit(cb_raw_string(src, RunEnd(src, p, IsBacktick) + 1,
                                    RunEnd(src, p, IsBacktick) + 1,
                                    RunEnd(src, p, IsBacktick) - p, 0, line, line_start), p)
          [] c = 124 -> OfLit(cb_paragraph(src, p, line, line_start), p)
          [] c = 96 /\ c1 \notin {-1, 10} -> cb_ident(src, p, p + 1, line, line_start)
          [] StartsWith(src, p, KwTrue) ->
                LexRes("tok", "Literal", "Bool", <<1>>, "", p, p + 4, line, line_start)
          [] StartsWith(src, p, KwFalse) ->
                LexRes("tok", "Literal", "Bool", <<0>>, "", p, p + 5, line, line_start)
          [] StartsWith(src, q, KwInf) \/ StartsWith(src, q, KwNaN) ->
                OfLit(cb_floating(Slice(src, p, q + 3), q + 3, line, line_start), p)
          [] IsDigit(At(src, q)) -> NumberToken(src, p, line, line_start)
          [] OTHER -> cb_ident(src, p, p, line, line_start))))))

\* ------------------------------------------------------------ values

\* A value of the serde data model: kind k, type (struct or enum) name ty,
\* variant or field name n, payload v (numbers: a bool as 0/1, code
\* points, bytes, a float as FloatVal) and children xs.  A struct's
\* children are "field" values (n the key, xs the value), a map's are
\* "entry" values (xs the key and the value).
Val(k, ty, n, v, xs) == [k |-> k, ty |-> ty, n |-> n, v |-> v, xs |-> xs]

Leaf(k, v) == Val(k, <<>>, <<>>, v, <<>>)
Node(k, xs) == Val(k, <<>>, <<>>, <<>>, xs)

\* ------------------------------------------------------- serializer

\* The depth that serializing and parsing may reach (RECURSION_LIMIT of
\* the crate root).
RECURSION_LIMIT == 3

\* SerializeConfig::minimal and SerializeConfig::comfort.
minimal == [minimize_after_depth |-> 0, bytes_flavor |-> "Base64"]
comfort == [minimize_after_depth |-> 6, bytes_flavor |-> "Normal"]

\* Serializer::new: the writer's content, the depth and the first error.
NewSerializer == [dst |-> <<>>, dep |-> 0, err |-> ""]

\* write!(self.dst, ...): nothing is written once an error was returned.
Write(s, text) == IF s.err # "" THEN s ELSE [s EXCEPT !.dst = @ \o text]

minimize(s, cfg) == s.dep >= cfg.minimize_after_depth

write_indent(s) == Write(s, [i \in 1..(4 * s.dep) |-> 32])

write_ident(s, ident) ==
    IF ident \in {KwTrue, KwFalse, KwInf, KwNaN}
    THEN Write(s, <<96>> \o ident)
    ELSE Write(s, ident)

\* maybe_write_struct_name, with the boolean it returns.
maybe_write_struct_name(s, name, cfg) ==
    IF ~minimize(s, cfg) /\ name # <<>>
    THEN <<Write(write_ident(Write(s, <<40>>), name), <<41>>), TRUE>>
    ELSE <<s, FALSE>>

\* A maybe_write_enum_name that writes the name when minimizing too.
maybe_write_enum_name_always(s, name, cfg) ==
    IF name # <<>> THEN Write(write_ident(s, name), <<58, 58>>) ELSE s

maybe_write_enum_name(s, name, cfg) ==
    IF ~minimize(s, cfg) /\ name # <<>>
    THEN Write(write_ident(s, name), <<58, 58>>)
    ELSE s

maybe_write_space(s, cfg) == IF ~minimize(s, cfg) THEN Write(s, <<32>>) ELSE s

\* write_i64 and write_u64: lexical_core::write.
write_int(s, n) == Write(s, IF n < 0 THEN <<45>> \o DecText(-n) ELSE DecText(n))

\* write_f64: lexical_core::write of a FloatVal, for the magnitudes that
\* lexical writes without an exponent.
write_f64(s, f) ==
    LET whole == DecText(f[3] \div (10 ^ f[4]))
        part == DecText(10 ^ f[4] + (f[3] % (10 ^ f[4])))
        sign == IF f[2] = 1 THEN <<45>> ELSE <<>>
    IN  CASE f[1] = 1 -> Write(s, sign \o KwInf)
          [] f[1] = 2 -> Write(s, KwNaN)
          [] OTHER ->
                Write(s, sign \o whole \o <<46>> \o (IF f[4] = 0 THEN <<48>> ELSE Tail(part)))

HexEscape(n) == <<92, 120, HexLower(n \div 16), HexLower(n % 16)>>

write_byte_escaped(byte) ==
    CASE byte = 0 -> <<92, 48>>
      [] byte = 10 -> <<92, 110>>
      [] byte = 9 -> <<92, 116>>
      [] byte = 13 -> <<92, 114>>
      [] byte = 39 -> <<92, 39>>
      [] byte = 34 -> <<92, 34>>
      [] byte \in 32..126 /\ byte \notin {34, 39} -> <<byte>>
      [] OTHER -> HexEscape(byte)

write_char_escaped(ch) ==
    CASE ch = 0 -> <<92, 48>>
      [] ch = 10 -> <<92, 110>>
      [] ch = 9 -> <<92, 116>>
      [] ch = 13 -> <<92, 114>>
      [] ch = 39 -> <<92, 39>>
      [] ch = 34 -> <<92, 34>>
      [] ch \in ((1..25) \ {9, 10, 13}) \cup {127} -> HexEscape(ch)
      [] OTHER -> <<ch>>

RECURSIVE EscapeAll(_, _)
\* The loop of serialize_str (bytes = FALSE) and serialize_bytes Normal.
EscapeAll(xs, bytes) ==
    IF xs = <<>> THEN <<>>
    ELSE (IF bytes THEN write_byte_escaped(Head(xs)) ELSE write_char_escaped(Head(xs)))
         \o EscapeAll(Tail(xs), bytes)

serialize_char(s, ch) == Write(s, <<39>> \o write_char_escaped(ch) \o <<39>>)

serialize_str(s, v) == Write(s, <<34>> \o EscapeAll(v, FALSE) \o <<34>>)

serialize_bytes(s, v, cfg) ==
    CASE cfg.bytes_flavor = "Normal" -> Write(s, <<98, 34>> \o EscapeAll(v, TRUE) \o <<34>>)
      [] cfg.bytes_flavor = "Base16" ->
            Write(s, <<98, 49, 54, 34>> \o BaseEncode("Base16", v) \o <<34>>)
      [] cfg.bytes_flavor = "Base32" ->
            Write(s, <<98, 51, 50, 34>> \o BaseEncode("Base32", v) \o <<34>>)
      [] cfg.bytes_flavor = "Base64" ->
            Write(s, <<98, 54, 52, 34>> \o BaseEncode("Base64", v) \o <<34>>)

\* SerializerEntry::enter.
enter(s, typ, cfg) ==
    LET s1 == [s EXCEPT !.dep = @ + 1]
    IN  IF s.err # "" THEN s
        ELSE IF s1.dep > RECURSION_LIMIT THEN [s1 EXCEPT !.err = "ExceededRecursionLimit"]
        ELSE CASE typ = "Seq" -> Write(s1, <<91>>)
               [] typ \in {"Tuple", "TupleDocile"} -> Write(s1, <<40>>)
               [] typ \in {"Map", "Struct"} -> Write(s1, <<123>>)
               [] typ = "Something" -> maybe_write_space(Write(s1, <<63>>), cfg)
               [] typ \in {"MinNewtype", "MinNullary"} -> Write(s1, <<37>>)

\* A write_separator that writes the comma before the first element too.
write_separator_always(s, ctr, cfg) ==
    LET s1 == Write(s, <<44>>)
        s2 == IF ~minimize(s1, cfg) THEN write_indent(Write(s1, <<10>>)) ELSE s1
    IN  IF s.err # "" THEN <<s, ctr>> ELSE <<s2, ctr + 1>>

\* SerializerEntry::write_separator, with the entry's counter.
write_separator(s, ctr, cfg) ==
    LET s1 == IF ctr # 0 THEN Write(s, <<44>>) ELSE s
        s2 == IF ~minimize(s1, cfg) THEN write_indent(Write(s1, <<10>>)) ELSE s1
    IN  IF s.err # "" THEN <<s, ctr>> ELSE <<s2, ctr + 1>>

\* A leave that tests the counter for the one-element tuple as it was
\* before the closing separator.
leave_counting_before(s, typ, ctr, cfg) ==
    LET s1 == [s EXCEPT !.dep = @ - 1]
        sep == IF ~minimize(s1, cfg) /\ ctr # 0
               THEN write_separator(s1, ctr, cfg) ELSE <<s1, ctr>>
    IN  IF s.err # "" THEN s
        ELSE CASE typ = "Seq" -> Write(sep[1], <<93>>)
               [] typ = "Tuple" /\ ctr = 1 -> Write(sep[1], <<44, 41>>)
               [] typ \in {"Tuple", "TupleDocile"} /\ ~(typ = "Tuple" /\ ctr = 1) ->
                     Write(sep[1], <<41>>)
               [] typ \in {"Map", "Struct"} -> Write(sep[1], <<125>>)
               [] OTHER -> sep[1]

\* SerializerEntry::leave.
leave(s, typ, ctr, cfg) ==
    LET s1 == [s EXCEPT !.dep = @ - 1]
        sep == IF ~minimize(s1, cfg) /\ ctr # 0
               THEN write_separator(s1, ctr, cfg) ELSE <<s1, ctr>>
    IN  IF s.err # "" THEN s
        ELSE CASE typ = "Seq" -> Write(sep[1], <<93>>)
               [] typ = "Tuple" /\ sep[2] = 1 -> Write(sep[1], <<44, 41>>)
               [] typ \in {"Tuple", "TupleDocile"} /\ ~(typ = "Tuple" /\ sep[2] = 1) ->
                     Write(sep[1], <<41>>)
               [] typ \in {"Map", "Struct"} -> Write(sep[1], <<125>>)
               [] OTHER -> sep[1]

RECURSIVE Ser(_, _, _), SerItems(_, _, _, _)
\* value.serialize(&mut ser): the serde::Serializer method that the
\* value's kind calls, and the calls of its elements.
Ser(v, s, cfg) ==
    IF s.err # "" THEN s
    ELSE CASE v.k = "unit" -> Write(s, <<40, 41>>)
      [] v.k = "bool" -> Write(s, IF v.v[1] = 1 THEN KwTrue ELSE KwFalse)
      [] v.k \in {"i64", "u64"} -> write_int(s, v.v[1])
      [] v.k = "f64" -> write_f64(s, v.v)
      [] v.k = "char" -> serialize_char(s, v.v[1])
      [] v.k = "str" -> serialize_str(s, v.v)
      [] v.k = "bytes" -> serialize_bytes(s, v.v, cfg)
      [] v.k = "none" -> Write(s, <<63>>)
      [] v.k = "some" ->
            leave(Ser(v.xs[1], enter(s, "Something", cfg), cfg), "Something", 0, cfg)
      [] v.k \in {"tuple", "seq", "map"} ->
            LET typ == CASE v.k = "tuple" -> "Tuple" [] v.k = "seq" -> "Seq" [] OTHER -> "Map"
                r == SerItems(v.xs, enter(s, typ, cfg), 0, cfg)
            IN  leave(r[1], typ, r[2], cfg)
      [] v.k = "unit_struct" ->
            LET n == maybe_write_struct_name(s, v.ty, cfg)
            IN  IF n[2] THEN n[1] ELSE Write(n[1], <<40, 41>>)
      [] v.k = "newtype_struct" ->
            LET n == maybe_write_struct_name(s, v.ty, cfg)
                typ == IF ~minimize(n[1], cfg) /\ n[2] THEN "TupleDocile" ELSE "MinNewtype"
            IN  leave(Ser(v.xs[1], enter(n[1], typ, cfg), cfg), typ, 0, cfg)
      [] v.k = "tuple_struct" ->
            LET n == maybe_write_struct_name(s, v.ty, cfg)
                typ == CASE Len(v.xs) = 0 -> "MinNullary"
                         [] Len(v.xs) # 0 /\ n[2] -> "TupleDocile"
                         [] OTHER -> "Tuple"
                r == SerItems(v.xs, enter(n[1], typ, cfg), 0, cfg)
            IN  leave(r[1], typ, r[2], cfg)
      [] v.k = "struct" ->
            LET n == maybe_write_space(maybe_write_struct_name(s, v.ty, cfg)[1], cfg)
                r == SerItems(v.xs, enter(n, "Struct", cfg), 0, cfg)
            IN  leave(r[1], "Struct", r[2], cfg)
      [] v.k = "unit_variant" -> write_ident(maybe_write_enum_name(s, v.ty, cfg), v.n)
      [] v.k = "newtype_variant" ->
            LET n == write_ident(maybe_write_enum_name(s, v.ty, cfg), v.n)
                typ == IF ~minimize(n, cfg) THEN "TupleDocile" ELSE "MinNewtype"
            IN  leave(Ser(v.xs[1], enter(n, typ, cfg), cfg), typ, 0, cfg)
      [] v.k = "tuple_variant" ->
            LET n == write_ident(maybe_write_enum_name(s, v.ty, cfg), v.n)
                typ == IF Len(v.xs) = 0 THEN "MinNullary" ELSE "TupleDocile"
                r == SerItems(v.xs, enter(n, typ, cfg), 0, cfg)
            IN  leave(r[1], typ, r[2], cfg)
      [] v.k = "struct_variant" ->
            LET n == maybe_write_space(
                         write_ident(maybe_write_enum_name(s, v.ty, cfg), v.n), cfg)
                r == SerItems(v.xs, enter(n, "Struct", cfg), 0, cfg)
            IN  leave(r[1], "Struct", r[2], cfg)

\* serialize_element, serialize_field, serialize_key and serialize_value
\* of the entry, over the elements in order; the result is the serializer
\* and the entry's counter.
SerItems(xs, s, ctr, cfg) ==
    IF xs = <<>> \/ s.err # "" THEN <<s, ctr>>
    ELSE LET x == Head(xs)
             sep == write_separator(s, ctr, cfg)
             one == CASE x.k = "field" ->
                            Ser(x.xs[1],
                                maybe_write_space(
                                    Write(write_ident(sep[1], x.n), <<58>>), cfg), cfg)
                      [] x.k = "entry" ->
                            Ser(x.xs[2],
                                maybe_write_space(
                                    Write(maybe_write_space(Ser(x.xs[1], sep[1], cfg), cfg),
                                          <<61, 62>>), cfg), cfg)
                      [] OTHER -> Ser(x, sep[1], cfg)
         IN  SerItems(Tail(xs), one, sep[2], cfg)

\* to_string and to_string_pretty: the written text, or the error.
to_string(v, cfg) == Ser(v, NewSerializer, cfg)

\* ------------------------------------------------------------ Kexer

\* No token: the empty peeked slot of the Kexer.
NoToken == LexRes("none", "", "", <<>>, "", 0, 0, 0, 0)

\* An error in the place of a token.
ErrToken(kind) == LexRes("err", "", "", <<>>, kind, 0, 0, 0, 0)

\* A deserializer that is given one more level than RECURSION_LIMIT.
NewDeserializerDeeper(src) ==
    [src |-> src, pos |-> 0, start |-> 0, end |-> 0, line |-> 0, line_start |-> 0,
     peeked |-> NoToken, offset |-> 0, ttl |-> RECURSION_LIMIT + 1]

\* Deserializer::from_str and Kexer::from_str: the lexer (source, position,
\* the span of the last token it produced and its extras line and
\* line_start), the peeked slot, the offset and the recursion budget ttl.
NewDeserializer(src) ==
    [src |-> src, pos |-> 0, start |-> 0, end |-> 0, line |-> 0, line_start |-> 0,
     peeked |-> NoToken, offset |-> 0, ttl |-> RECURSION_LIMIT]

\* A call of a method of the parser (through the traits Deserializer,
\* Visitor, SeqAccess, MapAccess, EnumAccess and VariantAccess) or of its
\* lexer: the method f on the arguments a.
RECURSIVE Call(_, _)

\* self.lex.next(): the lexer's result (a token, an error or the end) and
\* the lexer after it.
lex_next(d) ==
    Let(Call("Lex", <<d.src, d.pos, d.line, d.line_start>>), LAMBDA t :
        <<[d EXCEPT !.pos = t.end, !.start = t.start, !.end = t.end,
                    !.line = t.line, !.line_start = t.line_start], t>>)

\* A peek that moves the offset like Kexer::next does.
kex_peek_advancing(d) ==
    IF d.peeked.r # "none" THEN <<d, d.peeked>>
    ELSE Let(lex_next(d), LAMBDA n :
             <<[n[1] EXCEPT !.peeked = n[2], !.offset = n[1].end], n[2]>>)

\* Kexer::peek.
kex_peek(d) ==
    IF d.peeked.r # "none" THEN <<d, d.peeked>>
    ELSE Let(lex_next(d), LAMBDA n : <<[n[1] EXCEPT !.peeked = n[2]], n[2]>>)

\* Kexer::next: the offset becomes the lexer's span end (kept, like every
\* position of the model, in characters).
kex_next(d) ==
    Let(IF d.peeked.r # "none" THEN <<d, d.peeked>> ELSE lex_next(d), LAMBDA n :
        <<[n[1] EXCEPT !.peeked = NoToken, !.offset = n[1].end], n[2]>>)

\* Deserializer::offset: the byte index of that position in the source.
offset(d) == ByteLen(Slice(d.src, 0, d.offset))

\* ------------------------------------------------------------ errors

\* An Error: its kind ("" when there is none), and line and col (0 when
\* absent).
NoError == [kind |-> "", line |-> 0, col |-> 0]

\* Error::raise: an error without a location.
Error_raise(kind) == [kind |-> kind, line |-> 0, col |-> 0]

\* Deserializer::raise_error: the location of the lexer's current token.
raise_error(d, kind) ==
    [kind |-> kind,
     line |-> d.line + 1,
     col |-> IF d.line_start <= d.start THEN d.start - d.line_start + 1 ELSE 0]

\* A Result<V::Value> with the deserializer after the call.
Res(d, val, err) == [d |-> d, val |-> val, err |-> err]

Done(d, val) == Res(d, val, NoError)

Fail(d, err) == Res(d, Leaf("unit", <<>>), err)

\* ------------------------------------------------- Deserializer helpers

\* Deserializer::expect_next and expect_peek: the end of the input becomes
\* the error UnexpectedEof.
expect_next(d) ==
    Let(kex_next(d), LAMBDA n :
        IF n[2].r = "eof" THEN <<n[1], ErrToken("UnexpectedEof")>> ELSE n)

expect_peek(d) ==
    Let(kex_peek(d), LAMBDA n :
        IF n[2].r = "eof" THEN <<n[1], ErrToken("UnexpectedEof")>> ELSE n)

\* Deserializer::expect_consume_token.
expect_consume_token(d, token_kind, error_kind) ==
    Let(kex_next(d), LAMBDA n :
        CASE n[2].r = "eof" -> <<n[1], ErrToken("UnexpectedEof")>>
          [] n[2].r = "tok" /\ n[2].k # token_kind -> <<n[1], ErrToken(error_kind)>>
          [] OTHER -> n)

\* Deserializer::try_consume_token: the token when it was consumed, NoToken
\* when the next token is of another kind, or the lexer's error.
try_consume_token(d, token_kind) ==
    Let(kex_peek(d), LAMBDA n :
        CASE n[2].r = "err" -> n
          [] n[2].r = "tok" /\ n[2].k = token_kind -> kex_next(n[1])
          [] OTHER -> <<n[1], NoToken>>)

\* TokenKind::is_delimiter.
\* An is_delimiter that does not know the fat arrow.
is_delimiter_without_arrow(k) == k \in {"Comma", "Colon", "_Paren", "_Brack", "_Brace"}

is_delimiter(k) == k \in {"Comma", "Colon", "FatArrow", "_Paren", "_Brack", "_Brace"}

\* The test of parse_option, parse_mayary and unit_variant on the peeked
\* token: the input ends or a delimiter follows.
EndsHere(t) == t.r = "eof" \/ (t.r = "tok" /\ is_delimiter(t.k))

\* ------------------------------------------------------------- types

\* A type to deserialize into is described like a value: kind k, name ty,
\* element types xs.  "value" is keon::Value, "ignored" serde's IgnoredAny
\* (the value of a field that the struct does not have); "option", "seq"
\* and "map" carry their element types, "tuple" and the structs one type
\* per element ("field" descriptions for a struct), an "enum" its variants
\* (kind, enum name ty, variant name n, element types xs).
TValue == Leaf("value", <<>>)

TIgnored == Leaf("ignored", <<>>)

TStr == Leaf("str", <<>>)

\* serde's Error::invalid_type, invalid_length, unknown_variant,
\* missing_field and duplicate_field, all made by Error::custom.
Custom == Error_raise("Custom")

\* parse_literal: the visitor method of the literal's kind, for the
\* visitor of ty.
parse_literal(d, ty, t) ==
    LET n == t.v[1]
    IN  CASE ty.k = "value" ->
                Done(d, Leaf(CASE t.lk = "Bool" -> "bool" [] t.lk = "Int" -> "i64"
                               [] t.lk = "UInt" -> "u64" [] t.lk = "Float" -> "f64"
                               [] t.lk = "Char" -> "char"
                               [] t.lk \in {"Str", "String"} -> "str"
                               [] t.lk = "ByteBuf" -> "bytes", t.v))
          [] ty.k = "ignored" -> Done(d, Leaf("unit", <<>>))
          [] ty.k = "bool" /\ t.lk = "Bool" -> Done(d, Leaf("bool", t.v))
          [] ty.k = "i64" /\ t.lk = "Int" -> Done(d, Leaf("i64", t.v))
          [] ty.k = "i64" /\ t.lk = "UInt" ->
                IF n <= I64_MAX THEN Done(d, Leaf("i64", t.v)) ELSE Fail(d, Custom)
          [] ty.k = "u64" /\ t.lk = "UInt" -> Done(d, Leaf("u64", t.v))
          [] ty.k = "u64" /\ t.lk = "Int" ->
                IF n >= 0 THEN Done(d, Leaf("u64", t.v)) ELSE Fail(d, Custom)
          [] ty.k = "f64" /\ t.lk = "Float" -> Done(d, Leaf("f64", t.v))
          [] ty.k = "f64" /\ t.lk \in {"Int", "UInt"} ->
                Done(d, Leaf("f64", FloatVal(0, n < 0, IF n < 0 THEN -n ELSE n, 0)))
          [] ty.k = "char" /\ t.lk = "Char" -> Done(d, Leaf("char", t.v))
          [] ty.k = "char" /\ t.lk \in {"Str", "String"} ->
                IF Len(t.v) = 1 THEN Done(d, Leaf("char", t.v)) ELSE Fail(d, Custom)
          [] ty.k = "str" /\ t.lk \in {"Str", "String"} -> Done(d, Leaf("str", t.v))
          [] ty.k = "bytes" /\ t.lk = "ByteBuf" -> Done(d, Leaf("bytes", t.v))
          [] OTHER -> Fail(d, Custom)

\* vis.visit_unit().
visit_unit(d, ty) ==
    CASE ty.k \in {"value", "unit", "ignored"} -> Done(d, Leaf("unit", <<>>))
      [] ty.k = "unit_struct" -> Done(d, Val("unit_struct", ty.ty, <<>>, <<>>, <<>>))
      [] ty.k = "option" -> Done(d, Leaf("none", <<>>))
      [] OTHER -> Fail(d, Custom)

\* vis.visit_none().
visit_none(d, ty) ==
    CASE ty.k \in {"value", "option"} -> Done(d, Leaf("none", <<>>))
      [] ty.k = "ignored" -> Done(d, Leaf("unit", <<>>))
      [] OTHER -> Fail(d, Custom)

\* seed.deserialize(StrDeserializer::new(name)): vis.visit_str(name); for
\* an enum, serde's StrDeserializer is the EnumAccess of a unit variant
\* called name.
visit_str(d, ty, name) ==
    CASE ty.k \in {"value", "str"} -> Done(d, Leaf("str", name))
      [] ty.k = "ignored" -> Done(d, Leaf("unit", <<>>))
      [] ty.k = "char" /\ Len(name) = 1 -> Done(d, Leaf("char", name))
      [] ty.k = "enum" /\ \E i \in 1..Len(ty.xs) :
                              ty.xs[i].n = name /\ ty.xs[i].k = "unit_variant" ->
            Done(d, Val("unit_variant", ty.ty, name, <<>>, <<>>))
      [] OTHER -> Fail(d, Custom)

\* ------------------------------------------------------ Value's order

\* The order of two floats (-1, 0, 1): NaN is the greatest.
CmpFloat(a, b) ==
    LET key(f) == CASE f[1] = 2 -> <<3, 0>>
                    [] f[1] = 1 -> <<IF f[2] = 1 THEN 0 ELSE 2, 0>>
                    [] OTHER -> <<1, 0>>
        mag(f, g) == f[3] * 10 ^ g[4]
        sa == IF a[2] = 1 THEN -mag(a, b) ELSE mag(a, b)
        sb == IF b[2] = 1 THEN -mag(b, a) ELSE mag(b, a)
    IN  CASE key(a)[1] < key(b)[1] -> -1
          [] key(a)[1] > key(b)[1] -> 1
          [] key(a)[1] = key(b)[1] /\ a[1] # 0 -> 0
          [] OTHER -> IF sa < sb THEN -1 ELSE IF sa > sb THEN 1 ELSE 0

RECURSIVE CmpInts(_, _)
\* The order of two strings or byte strings.
CmpInts(a, b) ==
    CASE a = <<>> /\ b = <<>> -> 0
      [] a = <<>> /\ b # <<>> -> -1
      [] a # <<>> /\ b = <<>> -> 1
      [] OTHER -> IF Head(a) < Head(b) THEN -1
                  ELSE IF Head(a) > Head(b) THEN 1
                  ELSE CmpInts(Tail(a), Tail(b))

\* The position of a value's kind in the derived order of Value and in
\* the order of Number.
KindRank(k) ==
    CASE k = "unit" -> 0 [] k = "bool" -> 1 [] k = "char" -> 2 [] k = "i64" -> 3
      [] k = "u64" -> 4 [] k = "f64" -> 5 [] k = "str" -> 6 [] k = "bytes" -> 7
      [] k = "newtype_struct" -> 8 [] k = "none" -> 9 [] k = "some" -> 10
      [] k = "seq" -> 11 [] k = "map" -> 12 [] k = "entry" -> 13 [] OTHER -> 14

RECURSIVE Cmp(_, _), CmpAll(_, _)
\* Ord for Value (derived) and for Number.
Cmp(a, b) ==
    CASE KindRank(a.k) < KindRank(b.k) -> -1
      [] KindRank(a.k) > KindRank(b.k) -> 1
      [] a.k = b.k /\ a.k = "f64" -> CmpFloat(a.v, b.v)
      [] OTHER -> Let(CmpInts(a.v, b.v), LAMBDA c :
                      IF c # 0 THEN c ELSE CmpAll(a.xs, b.xs))

CmpAll(xs, ys) ==
    CASE xs = <<>> /\ ys = <<>> -> 0
      [] xs = <<>> /\ ys # <<>> -> -1
      [] xs # <<>> /\ ys = <<>> -> 1
      [] OTHER -> Let(Cmp(Head(xs), Head(ys)), LAMBDA c :
                      IF c # 0 THEN c ELSE CmpAll(Tail(xs), Tail(ys)))

RECURSIVE MapInsert(_, _)
\* BTreeMap::insert of the entry e into the entries es, kept in key order:
\* the value of an equal key is replaced.
MapInsert(es, e) ==
    IF es = <<>> THEN <<e>>
    ELSE Let(Cmp(e.xs[1], Head(es).xs[1]), LAMBDA c :
             CASE c < 0 -> <<e>> \o es
               [] c = 0 -> <<Node("entry", <<Head(es).xs[1], e.xs[2]>>)>> \o Tail(es)
               [] OTHER -> <<Head(es)>> \o MapInsert(Tail(es), e))

RECURSIVE MapCollect(_, _)
\* The loop of visit_map: the entries in the order read, inserted into
\* the map es.
MapCollect(es, read) ==
    IF read = <<>> THEN es ELSE MapCollect(MapInsert(es, Head(read)), Tail(read))

\* ----------------------------------------------------------- parser

\* An accessor handed to visit_seq: NullaryAccessor, TupleAccessor or
\* SeqAccessor (a is "Nullary", "Tuple" or "Seq"); first_variant is <<>>
\* when there is none.
Accessor(a, yielding, first_variant, ctr) ==
    [a |-> a, yielding |-> yielding, first_variant |-> first_variant, ctr |-> ctr]

NullaryAccessor == Accessor("Nullary", FALSE, <<>>, 0)

\* The result of next_element_seed and of next_key_seed: the deserializer,
\* the accessor, whether an element was read, the element and the error.
Elem(d, acc, some, val, err) ==
    [d |-> d, acc |-> acc, some |-> some, val |-> val, err |-> err]

NoElem(d, acc, err) == Elem(d, acc, FALSE, Leaf("unit", <<>>), err)

\* The elements read by a visitor's loop.
Elems(d, xs, err) == [d |-> d, xs |-> xs, err |-> err]

\* The variant of the enum ty that is called name, <<>> when none is.
VariantOf(ty, name) == SelectSeq(ty.xs, LAMBDA vd: vd.n = name)

\* The value that the derived visitor of a struct builds from the fields
\* it has read (field values in reading order): every field of the type
\* once, a missing Option field as None.
StructOf(ty, read) ==
    LET got(f) == SelectSeq(read, LAMBDA x: x.n = f.n)
        known == SelectSeq(read, LAMBDA x: \E i \in 1..Len(ty.xs): ty.xs[i].n = x.n)
        bad == \E i \in 1..Len(ty.xs):
                  \/ Len(got(ty.xs[i])) > 1
                  \/ Len(got(ty.xs[i])) = 0 /\ ty.xs[i].xs[1].k # "option"
        field(i) == IF got(ty.xs[i]) = <<>>
                    THEN Val("field", <<>>, ty.xs[i].n, <<>>, <<Leaf("none", <<>>)>>)
                    ELSE got(ty.xs[i])[1]
    IN  [ok |-> ~bad, val |-> Val(ty.k, ty.ty, ty.n, <<>>, [i \in 1..Len(ty.xs) |-> field(i)])]


\* A deserialize_any that returns an error of the value at once, with the
\* budget as the failed call left it.
deserialize_any_leaving_early(d, ty) ==
    IF d.ttl = 0 THEN Fail(d, raise_error(d, "ExceededRecursionLimit"))
    ELSE Let(expect_next([d EXCEPT !.ttl = @ - 1]), LAMBDA n :
         Let(n[2], LAMBDA t :
         Let((CASE t.r = "err" -> Fail(n[1], Error_raise(t.err))
                      [] t.r = "tok" /\ t.k = "Literal" -> parse_literal(n[1], ty, t)
                      [] t.r = "tok" /\ t.k = "Question" -> Call("parse_option", <<n[1], ty>>)
                      [] t.r = "tok" /\ t.k = "Paren_" -> Call("parse_parenthesis", <<n[1], ty>>)
                      [] t.r = "tok" /\ t.k = "Brack_" -> Call("parse_seq", <<n[1], ty>>)
                      [] t.r = "tok" /\ t.k = "Brace_" -> Call("parse_map", <<n[1], ty>>)
                      [] t.r = "tok" /\ t.k = "Percent" -> Call("parse_mayary", <<n[1], ty>>)
                      [] t.r = "tok" /\ t.k = "Ident" -> Call("parse_enum", <<n[1], ty, t.v>>)
                      [] OTHER -> Fail(n[1], Error_raise("UnexpectedToken"))), LAMBDA val :
             IF val.err.kind # "" THEN Fail(val.d, raise_error(val.d, val.err.kind))
             ELSE [val EXCEPT !.d.ttl = @ + 1])))

\* serde::Deserializer::deserialize_any for the visitor of ty; T::deserialize
\* of every type forwards to it.
deserialize_any(d, ty) ==
    IF d.ttl = 0 THEN Fail(d, raise_error(d, "ExceededRecursionLimit"))
    ELSE Let(expect_next([d EXCEPT !.ttl = @ - 1]), LAMBDA n :
         Let(n[2], LAMBDA t :
         Let((CASE t.r = "err" -> Fail(n[1], Error_raise(t.err))
                      [] t.r = "tok" /\ t.k = "Literal" -> parse_literal(n[1], ty, t)
                      [] t.r = "tok" /\ t.k = "Question" -> Call("parse_option", <<n[1], ty>>)
                      [] t.r = "tok" /\ t.k = "Paren_" -> Call("parse_parenthesis", <<n[1], ty>>)
                      [] t.r = "tok" /\ t.k = "Brack_" -> Call("parse_seq", <<n[1], ty>>)
                      [] t.r = "tok" /\ t.k = "Brace_" -> Call("parse_map", <<n[1], ty>>)
                      [] t.r = "tok" /\ t.k = "Percent" -> Call("parse_mayary", <<n[1], ty>>)
                      [] t.r = "tok" /\ t.k = "Ident" -> Call("parse_enum", <<n[1], ty, t.v>>)
                      [] OTHER -> Fail(n[1], Error_raise("UnexpectedToken"))), LAMBDA val :
         Let(IF val.err.kind # ""
             THEN Fail(val.d, raise_error(val.d, val.err.kind)) ELSE val, LAMBDA located :
             [located EXCEPT !.d.ttl = @ + 1]))))

parse_option(d, ty) ==
    Let(kex_peek(d), LAMBDA n :
        CASE n[2].r = "err" -> Fail(n[1], Error_raise(n[2].err))
          [] EndsHere(n[2]) -> visit_none(n[1], ty)
          [] OTHER -> Call("visit_some", <<n[1], ty>>))

parse_mayary(d, ty) ==
    Let(kex_peek(d), LAMBDA n :
        CASE n[2].r = "err" -> Fail(n[1], Error_raise(n[2].err))
          [] EndsHere(n[2]) -> Call("visit_seq", <<n[1], ty, NullaryAccessor>>)
          [] OTHER -> Call("visit_newtype_struct", <<n[1], ty>>))

parse_parenthesis(d, ty) ==
    Let(expect_peek(d), LAMBDA n :
    Let(kex_next(n[1])[1], LAMBDA d1 :
    Let(expect_peek(d1), LAMBDA m :
    Let(kex_next(m[1])[1], LAMBDA d2 :
    Let(expect_consume_token(d2, "Ident", "ExpectedVariant"), LAMBDA v :
        CASE n[2].r = "err" -> Fail(n[1], Error_raise(n[2].err))
          [] n[2].r = "tok" /\ n[2].k = "_Paren" -> Call("parse_unit_tail", <<d1, ty>>)
          [] n[2].r = "tok" /\ n[2].k = "Ident" ->
                CASE m[2].r = "err" -> Fail(m[1], Error_raise(m[2].err))
                  [] m[2].r = "tok" /\ m[2].k = "_Paren" -> Call("parse_unit_tail", <<d2, ty>>)
                  [] m[2].r = "tok" /\ m[2].k = "PathSep" ->
                        IF v[2].r = "err" THEN Fail(v[1], Error_raise(v[2].err))
                        ELSE Call("parse_tuple", <<v[1], ty, FALSE, v[2].v>>)
                  [] OTHER -> Call("parse_tuple", <<m[1], ty, FALSE, n[2].v>>)
          [] OTHER -> Call("parse_tuple", <<n[1], ty, FALSE, <<>>>>))))))

\* A parse_unit_tail whose tuple is not docile.
parse_unit_tail_strict(d, ty) ==
    Let(kex_peek(d), LAMBDA n :
    Let(kex_next(n[1])[1], LAMBDA d1 :
    Let(kex_peek(d1), LAMBDA m :
        CASE n[2].r = "err" -> Fail(n[1], Error_raise(n[2].err))
          [] n[2].r = "eof" -> visit_unit(n[1], ty)
          [] n[2].r = "tok" /\ n[2].k = "Paren_" -> Call("parse_tuple", <<d1, ty, FALSE, <<>>>>)
          [] n[2].r = "tok" /\ n[2].k = "Brace_" -> Call("parse_map", <<d1, ty>>)
          [] n[2].r = "tok" /\ n[2].k = "Percent" ->
                CASE m[2].r = "err" -> Fail(m[1], Error_raise(m[2].err))
                  [] EndsHere(m[2]) -> Call("visit_seq", <<m[1], ty, NullaryAccessor>>)
                  [] OTHER -> Call("visit_newtype_struct", <<m[1], ty>>)
          [] n[2].r = "tok" /\ is_delimiter(n[2].k) -> visit_unit(n[1], ty)
          [] OTHER -> Fail(n[1], Error_raise("ExpectedNonUnitStruct")))))

\* parse_parenthesis after `()` or `(Name)`.
parse_unit_tail(d, ty) ==
    Let(kex_peek(d), LAMBDA n :
    Let(kex_next(n[1])[1], LAMBDA d1 :
    Let(kex_peek(d1), LAMBDA m :
        CASE n[2].r = "err" -> Fail(n[1], Error_raise(n[2].err))
          [] n[2].r = "eof" -> visit_unit(n[1], ty)
          [] n[2].r = "tok" /\ n[2].k = "Paren_" -> Call("parse_tuple", <<d1, ty, TRUE, <<>>>>)
          [] n[2].r = "tok" /\ n[2].k = "Brace_" -> Call("parse_map", <<d1, ty>>)
          [] n[2].r = "tok" /\ n[2].k = "Percent" ->
                CASE m[2].r = "err" -> Fail(m[1], Error_raise(m[2].err))
                  [] EndsHere(m[2]) -> Call("visit_seq", <<m[1], ty, NullaryAccessor>>)
                  [] OTHER -> Call("visit_newtype_struct", <<m[1], ty>>)
          [] n[2].r = "tok" /\ is_delimiter(n[2].k) -> visit_unit(n[1], ty)
          [] OTHER -> Fail(n[1], Error_raise("ExpectedNonUnitStruct")))))

\* parse_tuple::<DOCILE> and parse_tuple_alt (first_variant not <<>>),
\* with TupleAccessor::_build.
parse_tuple(d, ty, docile, first_variant) ==
    Let(try_consume_token(d, "_Paren"), LAMBDA c :
        IF c[2].r = "err" THEN Fail(c[1], Error_raise(c[2].err))
        ELSE Call("visit_seq",
                  <<c[1], ty, Accessor("Tuple", c[2].r # "tok", first_variant,
                                       IF docile THEN 1 ELSE 0)>>))

\* parse_seq with SeqAccessor::new.
parse_seq(d, ty) ==
    Let(try_consume_token(d, "_Brack"), LAMBDA c :
        IF c[2].r = "err" THEN Fail(c[1], Error_raise(c[2].err))
        ELSE Call("visit_seq", <<c[1], ty, Accessor("Seq", c[2].r # "tok", <<>>, 0)>>))

\* parse_map with MapAccessor::new.
parse_map(d, ty) ==
    Let(try_consume_token(d, "_Brace"), LAMBDA c :
        IF c[2].r = "err" THEN Fail(c[1], Error_raise(c[2].err))
        ELSE Call("visit_map", <<c[1], ty, c[2].r # "tok">>))

\* A parse_enum that looks for the variant under the first name.
parse_enum_by_first_name(d, ty, name) ==
    Let(try_consume_token(d, "PathSep"), LAMBDA c :
    Let(expect_consume_token(c[1], "Ident", "ExpectedVariant"), LAMBDA v :
        CASE c[2].r = "err" -> Fail(c[1], Error_raise(c[2].err))
          [] c[2].r = "tok" ->
                IF v[2].r = "err" THEN Fail(v[1], Error_raise(v[2].err))
                ELSE Call("visit_enum", <<v[1], ty, name>>)
          [] OTHER -> Call("visit_enum", <<c[1], ty, name>>)))

parse_enum(d, ty, name) ==
    Let(try_consume_token(d, "PathSep"), LAMBDA c :
    Let(expect_consume_token(c[1], "Ident", "ExpectedVariant"), LAMBDA v :
        CASE c[2].r = "err" -> Fail(c[1], Error_raise(c[2].err))
          [] c[2].r = "tok" ->
                IF v[2].r = "err" THEN Fail(v[1], Error_raise(v[2].err))
                ELSE Call("visit_enum", <<v[1], ty, v[2].v>>)
          [] OTHER -> Call("visit_enum", <<c[1], ty, name>>)))

\* vis.visit_some(der): Option<T> and Value deserialize the inner value.
visit_some(d, ty) ==
    Let(CASE ty.k = "option" -> ty.xs[1] [] OTHER -> ty, LAMBDA inner :
    Let(Call("deserialize_any", <<d, inner>>), LAMBDA r :
        CASE ty.k \in {"value", "option", "ignored"} ->
                IF r.err.kind # "" THEN r
                ELSE IF ty.k = "ignored" THEN Done(r.d, Leaf("unit", <<>>))
                ELSE Done(r.d, Node("some", <<r.val>>))
          [] OTHER -> Fail(d, Custom)))

\* vis.visit_newtype_struct(der): a newtype struct and Value deserialize
\* the inner value.
visit_newtype_struct(d, ty) ==
    Let(CASE ty.k = "newtype_struct" -> ty.xs[1] [] OTHER -> ty, LAMBDA inner :
    Let(Call("deserialize_any", <<d, inner>>), LAMBDA r :
        CASE ty.k \in {"value", "newtype_struct", "ignored"} ->
                IF r.err.kind # "" THEN r
                ELSE IF ty.k = "ignored" THEN Done(r.d, Leaf("unit", <<>>))
                ELSE Done(r.d, Val("newtype_struct", ty.ty, <<>>, <<>>, <<r.val>>))
          [] OTHER -> Fail(d, Custom)))

\* The loop `while let Some(v) = seq_accessor.next_element()?` of Value,
\* Vec<T> and IgnoredAny.
ReadAll(d, acc, ty) ==
    Let(Call("next_element_seed", <<d, acc, ty>>), LAMBDA e :
    Let(Call("ReadAll", <<e.d, e.acc, ty>>), LAMBDA rest :
        CASE e.err.kind # "" -> Elems(e.d, <<>>, e.err)
          [] ~e.some -> Elems(e.d, <<>>, NoError)
          [] OTHER -> Elems(rest.d, <<e.val>> \o rest.xs, rest.err)))

\* The reads of a tuple's or a struct's visitor: one next_element per
\* element type, none after the last; a missing element is invalid_length.
ReadEach(d, acc, tys) ==
    Let(Call("next_element_seed", <<d, acc, Head(tys)>>), LAMBDA e :
    Let(Call("ReadEach", <<e.d, e.acc, Tail(tys)>>), LAMBDA rest :
        CASE tys = <<>> -> Elems(d, <<>>, NoError)
          [] e.err.kind # "" -> Elems(e.d, <<>>, e.err)
          [] ~e.some -> Elems(e.d, <<>>, Custom)
          [] OTHER -> Elems(rest.d, <<e.val>> \o rest.xs, rest.err)))

\* vis.visit_seq(accessor).
visit_seq(d, ty, acc) ==
    Let(Call("ReadAll", <<d, acc, IF ty.k = "seq" THEN ty.xs[1] ELSE ty>>), LAMBDA all :
    Let((IF ty.k \in {"struct", "struct_variant"}
               THEN [i \in 1..Len(ty.xs) |-> ty.xs[i].xs[1]] ELSE ty.xs), LAMBDA tys :
    Let(Call("ReadEach", <<d, acc, tys>>), LAMBDA each :
    Let(([i \in 1..Len(ty.xs) |->
                      Val("field", <<>>, ty.xs[i].n, <<>>, <<each.xs[i]>>)]), LAMBDA fields :
        CASE ty.k \in {"value", "seq", "ignored"} ->
                IF all.err.kind # "" THEN Fail(all.d, all.err)
                ELSE IF ty.k = "ignored" THEN Done(all.d, Leaf("unit", <<>>))
                ELSE Done(all.d, Node("seq", all.xs))
          [] ty.k \in {"tuple", "tuple_struct", "tuple_variant", "newtype_struct"} ->
                IF each.err.kind # "" THEN Fail(each.d, each.err)
                ELSE Done(each.d, Val(ty.k, ty.ty, ty.n, <<>>, each.xs))
          [] ty.k \in {"struct", "struct_variant"} ->
                IF each.err.kind # "" THEN Fail(each.d, each.err)
                ELSE Done(each.d, Val(ty.k, ty.ty, ty.n, <<>>, fields))
          [] OTHER -> Fail(d, Custom)))))

\* A next_element_seed that leaves the closing delimiter to the call after
\* the last element, which consumes it and yields nothing.
next_element_seed_closing_late(d, acc, ty) ==
    Let(IF acc.a = "Tuple" THEN "_Paren" ELSE "_Brack", LAMBDA closer :
    Let(try_consume_token(d, closer), LAMBDA close :
    Let((IF acc.first_variant # <<>>
             THEN Call("visit_enum", <<close[1], ty, acc.first_variant>>)
             ELSE Call("deserialize_any", <<close[1], ty>>)), LAMBDA r :
    Let([acc EXCEPT !.first_variant = <<>>, !.ctr = @ + 1], LAMBDA acc1 :
    Let(try_consume_token(r.d, "Comma"), LAMBDA comma :
        CASE ~acc.yielding -> NoElem(d, acc, NoError)
          [] close[2].r = "err" -> NoElem(close[1], acc, Error_raise(close[2].err))
          [] close[2].r = "tok" /\ acc.ctr > 0 ->
                NoElem(close[1], [acc EXCEPT !.yielding = FALSE], NoError)
          [] r.err.kind # "" -> NoElem(r.d, acc1, r.err)
          [] comma[2].r = "err" -> NoElem(comma[1], acc1, Error_raise(comma[2].err))
          [] OTHER -> Elem(comma[1], acc1, TRUE, r.val, NoError))))))

\* TupleAccessor::next_element_seed and SeqAccessor::next_element_seed
\* (and NullaryAccessor's, which yields nothing).
next_element_seed(d, acc, ty) ==
    Let((IF acc.first_variant # <<>> THEN Call("visit_enum", <<d, ty, acc.first_variant>>)
             ELSE Call("deserialize_any", <<d, ty>>)), LAMBDA r :
    Let([acc EXCEPT !.first_variant = <<>>, !.ctr = @ + 1], LAMBDA acc1 :
    Let(IF acc.a = "Tuple" THEN "_Paren" ELSE "_Brack", LAMBDA closer :
    Let(try_consume_token(r.d, "Comma"), LAMBDA comma :
    Let(try_consume_token(comma[1], closer), LAMBDA close :
    Let(expect_peek(comma[1]), LAMBDA pk :
    Let(expect_consume_token(comma[1], "_Brack", "ExpectedComma"), LAMBDA last :
    Let([acc1 EXCEPT !.yielding = FALSE], LAMBDA stop :
        CASE ~acc.yielding -> NoElem(d, acc, NoError)
          [] r.err.kind # "" -> NoElem(r.d, acc1, r.err)
          [] comma[2].r = "err" -> NoElem(comma[1], acc1, Error_raise(comma[2].err))
          [] comma[2].r = "tok" ->
                IF close[2].r = "err" THEN NoElem(close[1], acc1, Error_raise(close[2].err))
                ELSE Elem(close[1], [acc1 EXCEPT !.yielding = close[2].r # "tok"],
                          TRUE, r.val, NoError)
          [] acc.a = "Tuple" ->
                CASE pk[2].r = "err" -> NoElem(pk[1], acc1, Error_raise(pk[2].err))
                  [] pk[2].k = "_Paren" /\ acc1.ctr # 1 ->
                        Elem(kex_next(pk[1])[1], stop, TRUE, r.val, NoError)
                  [] OTHER -> NoElem(pk[1], acc1, Error_raise("ExpectedComma"))
          [] OTHER ->
                IF last[2].r = "err" THEN NoElem(last[1], acc1, Error_raise(last[2].err))
                ELSE Elem(last[1], stop, TRUE, r.val, NoError)))))))))

\* A next_key_seed that reads every key as a value before `=>`.
next_key_seed_by_value(d, yielding, ty) ==
    Let(Call("deserialize_any", <<d, ty>>), LAMBDA key :
    Let(expect_consume_token(key.d, "FatArrow", "ExpectedFatArrow"), LAMBDA arrow :
        CASE ~yielding -> NoElem(d, yielding, NoError)
          [] key.err.kind # "" -> NoElem(key.d, yielding, key.err)
          [] arrow[2].r = "err" -> NoElem(arrow[1], yielding, Error_raise(arrow[2].err))
          [] OTHER -> Elem(arrow[1], yielding, TRUE, key.val, NoError)))

\* MapAccessor::next_key_seed; the accessor is its field yielding.
next_key_seed(d, yielding, ty) ==
    Let(try_consume_token(d, "Ident"), LAMBDA id :
    Let(Call("deserialize_any", <<id[1], ty>>), LAMBDA key :
    Let(expect_consume_token(key.d, "FatArrow", "ExpectedFatArrow"), LAMBDA arrow :
    Let(try_consume_token(id[1], "Colon"), LAMBDA colon :
    Let(visit_str(colon[1], ty, id[2].v), LAMBDA field :
    Let(try_consume_token(colon[1], "PathSep"), LAMBDA sep :
    Let(expect_consume_token(sep[1], "Ident", "ExpectedVariant"), LAMBDA v :
    Let((IF sep[2].r = "tok" THEN Call("visit_enum", <<v[1], ty, v[2].v>>)
               ELSE Call("visit_enum", <<sep[1], ty, id[2].v>>)), LAMBDA var :
    Let(expect_consume_token(var.d, "FatArrow", "ExpectedFatArrow"), LAMBDA arrow2 :
        CASE ~yielding -> NoElem(d, yielding, NoError)
          [] id[2].r = "err" -> NoElem(id[1], yielding, Error_raise(id[2].err))
          [] id[2].r = "none" ->
                CASE key.err.kind # "" -> NoElem(key.d, yielding, key.err)
                  [] arrow[2].r = "err" -> NoElem(arrow[1], yielding, Error_raise(arrow[2].err))
                  [] OTHER -> Elem(arrow[1], yielding, TRUE, key.val, NoError)
          [] colon[2].r = "err" -> NoElem(colon[1], yielding, Error_raise(colon[2].err))
          [] colon[2].r = "tok" ->
                IF field.err.kind # "" THEN NoElem(field.d, yielding, field.err)
                ELSE Elem(field.d, yielding, TRUE, field.val, NoError)
          [] sep[2].r = "err" -> NoElem(sep[1], yielding, Error_raise(sep[2].err))
          [] sep[2].r = "tok" /\ v[2].r = "err" ->
                NoElem(v[1], yielding, Error_raise(v[2].err))
          [] var.err.kind # "" -> NoElem(var.d, yielding, var.err)
          [] arrow2[2].r = "err" -> NoElem(arrow2[1], yielding, Error_raise(arrow2[2].err))
          [] OTHER -> Elem(arrow2[1], yielding, TRUE, var.val, NoError))))))))))

\* MapAccessor::next_value_seed; acc of the result is the new yielding.
next_value_seed(d, ty) ==
    Let(Call("deserialize_any", <<d, ty>>), LAMBDA r :
    Let(try_consume_token(r.d, "Comma"), LAMBDA comma :
    Let(try_consume_token(comma[1], "_Brace"), LAMBDA close :
    Let(expect_consume_token(comma[1], "_Brace", "ExpectedComma"), LAMBDA last :
        CASE r.err.kind # "" -> NoElem(r.d, TRUE, r.err)
          [] comma[2].r = "err" -> NoElem(comma[1], TRUE, Error_raise(comma[2].err))
          [] comma[2].r = "tok" ->
                IF close[2].r = "err" THEN NoElem(close[1], TRUE, Error_raise(close[2].err))
                ELSE Elem(close[1], close[2].r # "tok", TRUE, r.val, NoError)
          [] OTHER ->
                IF last[2].r = "err" THEN NoElem(last[1], TRUE, Error_raise(last[2].err))
                ELSE Elem(last[1], FALSE, TRUE, r.val, NoError)))))

\* The loop `while let Some((k, v)) = map_accessor.next_entry()?` of Value,
\* a map type and IgnoredAny: the entries in reading order.
ReadEntries(d, yielding, kty, vty) ==
    Let(Call("next_key_seed", <<d, yielding, kty>>), LAMBDA k :
    Let(Call("next_value_seed", <<k.d, vty>>), LAMBDA v :
    Let(Call("ReadEntries", <<v.d, v.acc, kty, vty>>), LAMBDA rest :
        CASE k.err.kind # "" -> Elems(k.d, <<>>, k.err)
          [] ~k.some -> Elems(k.d, <<>>, NoError)
          [] v.err.kind # "" -> Elems(v.d, <<>>, v.err)
          [] OTHER -> Elems(rest.d, <<Node("entry", <<k.val, v.val>>)>> \o rest.xs, rest.err))))

\* The loop of a derived struct visitor's visit_map: the key is read as a
\* field identifier, the value as the field's type, or as IgnoredAny when
\* the struct has no such field.
ReadFields(d, yielding, ty) ==
    Let(Call("next_key_seed", <<d, yielding, TStr>>), LAMBDA k :
    Let(SelectSeq(ty.xs, LAMBDA x: x.n = k.val.v), LAMBDA f :
    Let(Call("next_value_seed", <<k.d, IF f = <<>> THEN TIgnored ELSE f[1].xs[1]>>), LAMBDA v :
    Let(Call("ReadFields", <<v.d, v.acc, ty>>), LAMBDA rest :
        CASE k.err.kind # "" -> Elems(k.d, <<>>, k.err)
          [] ~k.some -> Elems(k.d, <<>>, NoError)
          [] v.err.kind # "" -> Elems(v.d, <<>>, v.err)
          [] OTHER ->
                Elems(rest.d, <<Val("field", <<>>, k.val.v, <<>>, <<v.val>>)>> \o rest.xs,
                      rest.err)))))

\* vis.visit_map(accessor).
visit_map(d, ty, yielding) ==
    Let(IF ty.k = "map" THEN ty.xs[1] ELSE ty, LAMBDA kty :
    Let(IF ty.k = "map" THEN ty.xs[2] ELSE ty, LAMBDA vty :
    Let(Call("ReadEntries", <<d, yielding, kty, vty>>), LAMBDA es :
    Let(Call("ReadFields", <<d, yielding, ty>>), LAMBDA fs :
    Let(StructOf(ty, fs.xs), LAMBDA st :
        CASE ty.k \in {"value", "map", "ignored"} ->
                IF es.err.kind # "" THEN Fail(es.d, es.err)
                ELSE IF ty.k = "ignored" THEN Done(es.d, Leaf("unit", <<>>))
                ELSE Done(es.d, Node("map", MapCollect(<<>>, es.xs)))
          [] ty.k \in {"struct", "struct_variant"} ->
                IF fs.err.kind # "" THEN Fail(fs.d, fs.err)
                ELSE IF ~st.ok THEN Fail(fs.d, Custom)
                ELSE Done(fs.d, st.val)
          [] OTHER -> Fail(d, Custom))))))

\* A visit_enum that takes every variant for a unit variant.
visit_enum_as_unit(d, ty, name) ==
    Let(kex_peek(d), LAMBDA pk :
        CASE pk[2].r = "err" -> Fail(pk[1], Error_raise(pk[2].err))
          [] ~EndsHere(pk[2]) -> Fail(pk[1], Error_raise("ExpectedUnitVariant"))
          [] OTHER -> Done(pk[1], Val("unit_variant", ty.ty, name, <<>>, <<>>)))

\* vis.visit_enum(EnumAccessor::new(der, name)): a derived enum finds the
\* variant called name (variant_seed) and calls the VariantAccessor's
\* unit_variant, newtype_variant_seed, tuple_variant or struct_variant.
visit_enum(d, ty, name) ==
    Let(IF ty.k = "enum" THEN VariantOf(ty, name) ELSE <<>>, LAMBDA found :
    Let((IF ty.k = "ignored"
              THEN Val("newtype_variant", <<>>, name, <<>>, <<TIgnored>>) ELSE found[1]), LAMBDA vd :
    Let(kex_peek(d), LAMBDA pk :
    Let(expect_next(d), LAMBDA n :
    Let(Call("deserialize_any", <<n[1], vd.xs[1]>>), LAMBDA inner :
    Let(try_consume_token(inner.d, "Comma"), LAMBDA comma :
    Let(expect_consume_token(comma[1], "_Paren", "ExpectedNewtypeVariant"), LAMBDA close :
    LET newtype(dd) == IF ty.k = "ignored" THEN Done(dd, Leaf("unit", <<>>))
                       ELSE Done(dd, Val(vd.k, vd.ty, vd.n, <<>>, <<inner.val>>))
    IN
    Let(expect_consume_token(d, "Brace_", "ExpectedStructVariant"), LAMBDA brace :
        CASE ty.k \notin {"enum", "ignored"} -> Fail(d, Custom)
          [] ty.k = "enum" /\ found = <<>> -> Fail(d, Custom)
          [] vd.k = "unit_variant" ->
                CASE pk[2].r = "err" -> Fail(pk[1], Error_raise(pk[2].err))
                  [] ~EndsHere(pk[2]) -> Fail(pk[1], Error_raise("ExpectedUnitVariant"))
                  [] OTHER -> Done(pk[1], Val(vd.k, vd.ty, vd.n, <<>>, <<>>))
          [] vd.k = "newtype_variant" ->
                CASE n[2].r = "err" -> Fail(n[1], Error_raise(n[2].err))
                  [] n[2].k = "Percent" ->
                        IF inner.err.kind # "" THEN inner ELSE newtype(inner.d)
                  [] n[2].k = "Paren_" ->
                        CASE inner.err.kind # "" -> inner
                          [] comma[2].r = "err" -> Fail(comma[1], Error_raise(comma[2].err))
                          [] close[2].r = "err" -> Fail(close[1], Error_raise(close[2].err))
                          [] OTHER -> newtype(close[1])
                  [] OTHER -> Fail(n[1], Error_raise("ExpectedNewtypeVariant"))
          [] vd.k = "tuple_variant" ->
                CASE n[2].r = "err" -> Fail(n[1], Error_raise(n[2].err))
                  [] n[2].k = "Percent" -> Call("visit_seq", <<n[1], vd, NullaryAccessor>>)
                  [] n[2].k = "Paren_" -> Call("parse_tuple", <<n[1], vd, TRUE, <<>>>>)
                  [] OTHER -> Fail(n[1], Error_raise("ExpectedTupleVariant"))
          [] vd.k = "struct_variant" ->
                IF brace[2].r = "err" THEN Fail(brace[1], Error_raise(brace[2].err))
                ELSE Call("parse_map", <<brace[1], vd>>)))))))))

\* A finish that accepts whatever follows.
finish_anything(d) == Let(kex_next(d), LAMBDA n : Done(n[1], Leaf("unit", <<>>)))

\* Deserializer::finish.
finish(d) ==
    Let(kex_next(d), LAMBDA n :
        CASE n[2].r = "err" -> Fail(n[1], Error_raise(n[2].err))
          [] n[2].r = "tok" -> Fail(n[1], raise_error(n[1], "ExpectedEof"))
          [] OTHER -> Done(n[1], Leaf("unit", <<>>)))

\* from_str::<T>: the value, or the first error, and the deserializer.
from_str(src, ty) ==
    Let(Call("deserialize_any", <<NewDeserializer(src), ty>>), LAMBDA val :
    Let(Call("finish", <<val.d>>), LAMBDA fin :
        IF val.err.kind # "" THEN val
        ELSE IF fin.err.kind # "" THEN fin
        ELSE Done(fin.d, val.val)))

Call(f, a) ==
    CASE f = "deserialize_any" -> deserialize_any(a[1], a[2])
      [] f = "parse_option" -> parse_option(a[1], a[2])
      [] f = "parse_mayary" -> parse_mayary(a[1], a[2])
      [] f = "parse_parenthesis" -> parse_parenthesis(a[1], a[2])
      [] f = "parse_unit_tail" -> parse_unit_tail(a[1], a[2])
      [] f = "parse_tuple" -> parse_tuple(a[1], a[2], a[3], a[4])
      [] f = "parse_seq" -> parse_seq(a[1], a[2])
      [] f = "parse_map" -> parse_map(a[1], a[2])
      [] f = "parse_enum" -> parse_enum(a[1], a[2], a[3])
      [] f = "visit_some" -> visit_some(a[1], a[2])
      [] f = "visit_newtype_struct" -> visit_newtype_struct(a[1], a[2])
      [] f = "visit_seq" -> visit_seq(a[1], a[2], a[3])
      [] f = "visit_map" -> visit_map(a[1], a[2], a[3])
      [] f = "visit_enum" -> visit_enum(a[1], a[2], a[3])
      [] f = "next_element_seed" -> next_element_seed(a[1], a[2], a[3])
      [] f = "next_key_seed" -> next_key_seed(a[1], a[2], a[3])
      [] f = "next_value_seed" -> next_value_seed(a[1], a[2])
      [] f = "ReadAll" -> ReadAll(a[1], a[2], a[3])
      [] f = "ReadEach" -> ReadEach(a[1], a[2], a[3])
      [] f = "ReadEntries" -> ReadEntries(a[1], a[2], a[3], a[4])
      [] f = "ReadFields" -> ReadFields(a[1], a[2], a[3])
      [] f = "Lex" -> Lex(a[1], a[2], a[3], a[4])
      [] f = "finish" -> finish(a[1])
      [] f = "from_str" -> from_str(a[1], a[2])

\* ----------------------------------------------------- state machine

\* A program that builds a value of some type, writes it with to_string or
\* to_string_pretty and reads the text back: val is the value and ty its
\* type, cfg the SerializeConfig and ser the Serializer after the call, src
\* the text handed to the parser, res the result (with the Deserializer)
\* and pc the step the program is at.
VARIABLES val, ty, cfg, ser, src, res, pc

vars == <<val, ty, cfg, ser, src, res, pc>>

\* Values grow to this nesting with every shape, and deeper only as chains.
MaxWide == 2

\* The most elements of a sequence, a tuple or a map.
MaxLen == 2

TUnit == Leaf("unit", <<>>)

TBool == Leaf("bool", <<>>)

TI64 == Leaf("i64", <<>>)

TU64 == Leaf("u64", <<>>)

\* The values without elements that the typed program starts from, with
\* their types: (), -3i64 and a string of one three-byte character (bool
\* and u64 come in as tuple elements and map keys).
TypedLeaves ==
    {<<Leaf("unit", <<>>), TUnit>>, <<Leaf("i64", <<-3>>), TI64>>,
     <<Leaf("str", <<20013>>), TStr>>}

RECURSIVE Depth(_), DepthAll(_)
\* The nesting of a value: how many SerializerEntry::enter calls are open
\* at its innermost element.
Depth(v) ==
    CASE v.k \in {"field", "entry"} -> DepthAll(v.xs)
      [] v.k \in {"some", "newtype_struct", "newtype_variant", "seq", "tuple", "map",
                  "tuple_struct", "struct", "tuple_variant", "struct_variant"} ->
            1 + DepthAll(v.xs)
      [] OTHER -> 0

DepthAll(xs) ==
    IF xs = <<>> THEN 0
    ELSE LET a == Depth(Head(xs))
             b == DepthAll(Tail(xs))
         IN  IF a > b THEN a ELSE b

RECURSIVE IsChain(_)
\* A value that is a chain of Some, newtype structs and newtype variants
\* around a value without elements.
IsChain(v) ==
    IF v.xs = <<>> THEN TRUE
    ELSE IF v.k \notin {"some", "newtype_struct", "newtype_variant"} THEN FALSE
    ELSE IsChain(v.xs[1])

RECURSIVE Nesting(_), NestingAll(_)
\* The nesting of a type: how many types are wrapped around its innermost
\* element type.
Nesting(t) ==
    CASE t.xs = <<>> -> 0
      [] t.xs # <<>> /\ t.k \in {"field", "enum"} -> NestingAll(t.xs)
      [] OTHER -> 1 + NestingAll(t.xs)

NestingAll(xs) ==
    IF xs = <<>> THEN 0
    ELSE LET a == Nesting(Head(xs))
             b == NestingAll(Tail(xs))
         IN  IF a > b THEN a ELSE b

\* Whether the program may wrap val once more: every shape while the type
\* nests less than MaxWide (a Value while the value does), and a chain of
\* single elements up to one level beyond the recursion limit.
MayWrap ==
    /\ pc = "build"
    /\ IF ty = TValue THEN Depth(val) < MaxWide ELSE Nesting(ty) < MaxWide

MayChain ==
    /\ pc = "build"
    /\ ty # TValue
    /\ IsChain(val)
    /\ Depth(val) = Nesting(ty)
    /\ Depth(val) <= RECURSION_LIMIT

Copies(n, v) == [i \in 1..n |-> v]

\* The result before anything was parsed.
NoResult == Done(NewDeserializer(<<>>), Leaf("unit", <<>>))

Init ==
    /\ \E l \in TypedLeaves : val = l[1] /\ ty = l[2]
    /\ cfg = minimal
    /\ ser = NewSerializer
    /\ src = <<>>
    /\ res = NoResult
    /\ pc = "build"

\* Option<T>: Some(val) or None.
WrapOption ==
    /\ MayWrap \/ MayChain
    /\ \E some \in BOOLEAN :
          val' = IF some THEN Node("some", <<val>>) ELSE Leaf("none", <<>>)
    /\ ty' = IF ty = TValue THEN TValue ELSE Node("option", <<ty>>)
    /\ UNCHANGED <<cfg, ser, src, res, pc>>

\* Vec<T> of up to MaxLen copies of val.
WrapSeq ==
    /\ MayWrap
    /\ \E n \in 0..MaxLen : val' = Node("seq", Copies(n, val))
    /\ ty' = IF ty = TValue THEN TValue ELSE Node("seq", <<ty>>)
    /\ UNCHANGED <<cfg, ser, src, res, pc>>

\* BTreeMap<u64, T> with the keys 1..n.
WrapMap ==
    /\ MayWrap
    /\ \E n \in 0..MaxLen :
          val' = Node("map", [i \in 1..n |-> Node("entry", <<Leaf("u64", <<i>>), val>>)])
    /\ ty' = IF ty = TValue THEN TValue ELSE Node("map", <<TU64, ty>>)
    /\ UNCHANGED <<cfg, ser, src, res, pc>>

\* (T,) or (T, bool, ...).
WrapTuple ==
    /\ MayWrap
    /\ \E n \in 1..MaxLen :
          /\ val' = Node("tuple", <<val>> \o Copies(n - 1, Leaf("bool", <<1>>)))
          /\ ty' = Node("tuple", <<ty>> \o Copies(n - 1, TBool))
    /\ UNCHANGED <<cfg, ser, src, res, pc>>

\* struct Un; struct Nt(T); struct Tp(T, T); struct St { a: T, b: bool }.
WrapStruct ==
    /\ \E k \in {"unit_struct", "newtype_struct", "tuple_struct", "struct"} :
          /\ MayWrap \/ (MayChain /\ k = "newtype_struct")
          /\ val' = CASE k = "unit_struct" -> Val(k, <<85, 110>>, <<>>, <<>>, <<>>)
                      [] k = "newtype_struct" -> Val(k, <<78, 116>>, <<>>, <<>>, <<val>>)
                      [] k = "tuple_struct" -> Val(k, <<84, 112>>, <<>>, <<>>, <<val, val>>)
                      [] k = "struct" ->
                            Val(k, <<83, 116>>, <<>>, <<>>,
                                <<Val("field", <<>>, <<97>>, <<>>, <<val>>),
                                  Val("field", <<>>, <<98>>, <<>>, <<Leaf("bool", <<1>>)>>)>>)
          /\ ty' = CASE k = "unit_struct" -> Val(k, <<85, 110>>, <<>>, <<>>, <<>>)
                     [] k = "newtype_struct" -> Val(k, <<78, 116>>, <<>>, <<>>, <<ty>>)
                     [] k = "tuple_struct" -> Val(k, <<84, 112>>, <<>>, <<>>, <<ty, ty>>)
                     [] k = "struct" ->
                           Val(k, <<83, 116>>, <<>>, <<>>,
                               <<Val("field", <<>>, <<97>>, <<>>, <<ty>>),
                                 Val("field", <<>>, <<98>>, <<>>, <<TBool>>)>>)
    /\ UNCHANGED <<cfg, ser, src, res, pc>>

\* enum E { U, N(T), T(T, bool), S { a: T } } over the type t.
EnumOver(t) ==
    Val("enum", <<69>>, <<>>, <<>>,
        <<Val("unit_variant", <<69>>, <<85>>, <<>>, <<>>),
          Val("newtype_variant", <<69>>, <<78>>, <<>>, <<t>>),
          Val("tuple_variant", <<69>>, <<84>>, <<>>, <<t, TBool>>),
          Val("struct_variant", <<69>>, <<83>>, <<>>,
              <<Val("field", <<>>, <<97>>, <<>>, <<t>>)>>)>>)

\* E::U, E::N(val), E::T(val, true) or E::S { a: val }.
WrapVariant ==
    /\ \E k \in {"unit_variant", "newtype_variant", "tuple_variant", "struct_variant"} :
          /\ MayWrap \/ (MayChain /\ k = "newtype_variant")
          /\ val' = CASE k = "unit_variant" -> Val(k, <<69>>, <<85>>, <<>>, <<>>)
                      [] k = "newtype_variant" -> Val(k, <<69>>, <<78>>, <<>>, <<val>>)
                      [] k = "tuple_variant" ->
                            Val(k, <<69>>, <<84>>, <<>>, <<val, Leaf("bool", <<1>>)>>)
                      [] k = "struct_variant" ->
                            Val(k, <<69>>, <<83>>, <<>>,
                                <<Val("field", <<>>, <<97>>, <<>>, <<val>>)>>)
    /\ ty' = EnumOver(ty)
    /\ UNCHANGED <<cfg, ser, src, res, pc>>

\* to_string (minimal) or to_string_pretty (comfort) of val.
Serialize ==
    /\ pc = "build"
    /\ \E c \in {minimal, comfort} :
          /\ cfg' = c
          /\ ser' = to_string(val, c)
    /\ src' = ser'.dst
    /\ pc' = "written"
    /\ UNCHANGED <<val, ty, res>>

\* from_str::<T> of the written text.
FromStr ==
    /\ pc = "written"
    /\ ser.err = ""
    /\ res' = Call("from_str", <<src, ty>>)
    /\ pc' = "parsed"
    /\ UNCHANGED <<val, ty, cfg, ser, src>>

\* The text that may follow the written value in a longer input: a comma,
\* a blank and the literal 1, or only a blank.
Tails == {<<44>>, <<32, 49>>, <<32>>}

\* Deserializer::from_str on the compact text followed by more text, and
\* T::deserialize(&mut der) of one value from it.
Deserialize ==
    /\ pc = "written"
    /\ ser.err = ""
    /\ cfg = minimal
    /\ \E tail \in Tails :
          /\ src' = ser.dst \o tail
          /\ res' = Call("deserialize_any", <<NewDeserializer(src'), ty>>)
    /\ pc' = "deserialized"
    /\ UNCHANGED <<val, ty, cfg, ser>>

\* der.finish() after T::deserialize(&mut der) has returned Ok, and the
\* value or the error that from_str returns then.
Finish ==
    /\ pc = "deserialized"
    /\ res.err.kind = ""
    /\ res' = Let(Call("finish", <<res.d>>), LAMBDA fin :
                  IF fin.err.kind # "" THEN fin ELSE Done(fin.d, res.val))
    /\ pc' = "finished"
    /\ UNCHANGED <<val, ty, cfg, ser, src>>

Next ==
    \/ WrapOption
    \/ WrapSeq
    \/ WrapMap
    \/ WrapTuple
    \/ WrapStruct
    \/ WrapVariant
    \/ Serialize
    \/ FromStr
    \/ Deserialize
    \/ Finish

Spec == Init /\ [][Next]_vars

\* ------------------------------------- state machine: literals

\* The most characters of a string and bytes of a byte string.
MaxText == 2

\* The characters that strings are made of: NUL, a control character, a
\* newline, a space, a quote, an apostrophe, a backslash, a backtick, a
\* letter, DEL and a three-byte character.
Chars == {0, 1, 10, 32, 34, 39, 92, 96, 97, 127, 20013}

\* The bytes that byte strings are made of.
Bytes == {0, 10, 34, 39, 92, 97, 127, 128, 255}

TChar == Leaf("char", <<>>)

TBytes == Leaf("bytes", <<>>)

\* The four values of BytesFlavor.
BytesFlavors == {"Normal", "Base16", "Base32", "Base64"}

\* A program that makes a char, a String or a byte string, writes it and
\* reads the text back.
InitLit ==
    /\ \/ \E c \in Chars : val = Leaf("char", <<c>>) /\ ty = TChar
       \/ val = Leaf("str", <<>>) /\ ty = TStr
       \/ val = Leaf("bytes", <<>>) /\ ty = TBytes
    /\ cfg = minimal
    /\ ser = NewSerializer
    /\ src = <<>>
    /\ res = NoResult
    /\ pc = "build"

\* String::push.
PushChar ==
    /\ pc = "build"
    /\ val.k = "str"
    /\ Len(val.v) < MaxText
    /\ \E c \in Chars : val' = [val EXCEPT !.v = Append(@, c)]
    /\ UNCHANGED <<ty, cfg, ser, src, res, pc>>

\* Vec<u8>::push.
PushByte ==
    /\ pc = "build"
    /\ val.k = "bytes"
    /\ Len(val.v) < MaxText
    /\ \E b \in Bytes : val' = [val EXCEPT !.v = Append(@, b)]
    /\ UNCHANGED <<ty, cfg, ser, src, res, pc>>

\* value.serialize(&mut Serializer::new(writer, config)) with a preset's
\* depth and any bytes_flavor.
ToWriter ==
    /\ pc = "build"
    /\ \E c \in {minimal, comfort}, f \in BytesFlavors :
          /\ cfg' = [c EXCEPT !.bytes_flavor = f]
          /\ ser' = Ser(val, NewSerializer, cfg')
    /\ src' = ser'.dst
    /\ pc' = "written"
    /\ UNCHANGED <<val, ty, res>>

NextLit ==
    \/ PushChar
    \/ PushByte
    \/ ToWriter
    \/ FromStr

SpecLit == InitLit /\ [][NextLit]_vars

\* ------------------------------------- state machine: Value trees

\* The Values without elements that the dynamic program starts from: Unit,
\* Bool, Char (a letter and a backslash), Number (Int below and above zero,
\* UInt, Float 1.5 and NaN), String and Bytes.
ValueLeaves ==
    {Leaf("unit", <<>>), Leaf("bool", <<1>>), Leaf("char", <<97>>), Leaf("char", <<92>>),
     Leaf("i64", <<-3>>), Leaf("i64", <<5>>), Leaf("u64", <<7>>),
     Leaf("f64", FloatVal(0, FALSE, 15, 1)), Leaf("f64", FloatVal(2, FALSE, 0, 0)),
     Leaf("str", <<97, 34>>), Leaf("bytes", <<0, 255>>)}

\* A program that builds a Value, writes it and reads the text back into
\* a Value.
InitValue ==
    /\ val \in ValueLeaves
    /\ ty = TValue
    /\ cfg = minimal
    /\ ser = NewSerializer
    /\ src = <<>>
    /\ res = NoResult
    /\ pc = "build"

\* Value::Newtype(Box::new(val)).
WrapNewtype ==
    /\ MayWrap
    /\ ty = TValue
    /\ val' = Node("newtype_struct", <<val>>)
    /\ UNCHANGED <<ty, cfg, ser, src, res, pc>>

NextValue ==
    \/ WrapNewtype
    \/ WrapOption
    \/ WrapSeq
    \/ WrapMap
    \/ Serialize
    \/ FromStr

SpecValue == InitValue /\ [][NextValue]_vars

\* ------------------------------------- state machine: documents

\* The most characters of a document written by hand (a document of only
\* `?` or only `%` may be two longer than RECURSION_LIMIT).
MaxDoc == 4

\* The characters of such a document: ? % ( ) 1 b, a blank, a newline, an
\* apostrophe and a quote.
Alphabet == {63, 37, 40, 41, 49, 98, 32, 10, 39, 34}

\* A text that repeats its first character.
Repeats(s) == \A i \in 1..Len(s) : s[i] = s[1]

\* A program that is given a document and reads it into a Value.
InitText ==
    /\ val = Leaf("unit", <<>>)
    /\ ty = TValue
    /\ cfg = minimal
    /\ ser = NewSerializer
    /\ src = <<>>
    /\ res = NoResult
    /\ pc = "written"

\* One more character of the document.
TypeChar ==
    /\ pc = "written"
    /\ \E c \in Alphabet :
          /\ \/ Len(src) < MaxDoc
             \/ /\ Len(src) <= RECURSION_LIMIT + 1
                /\ c \in {63, 37}
                /\ Repeats(Append(src, c))
          /\ src' = Append(src, c)
    /\ UNCHANGED <<val, ty, cfg, ser, res, pc>>

NextText ==
    \/ TypeChar
    \/ FromStr

SpecText == InitText /\ [][NextText]_vars

\* ------------------------------------- state machine: prefix markers

\* The most characters that follow the marker.
MaxMark == 3

\* The characters that follow the marker: , : = > ) ] } ( [ { 1 ? % and a
\* blank.
MarkAlphabet == {44, 58, 61, 62, 41, 93, 125, 40, 91, 123, 49, 63, 37, 32}

\* The markers: `?`, `%`, the parenthesis heads `()` and `(N)`, and the
\* starts `(` and `(N::V` of a tuple.
Marks == {<<63>>, <<37>>, <<40, 41>>, <<40, 78, 41>>, <<40>>, <<40, 78, 58, 58, 86>>}

\* Whether the text s starts with the text m.
HasPrefix(s, m) == Len(m) <= Len(s) /\ Slice(s, 0, Len(m)) = m

\* The longest marker that the text s starts with.
MarkOf(s) ==
    CHOOSE m \in Marks :
        /\ HasPrefix(s, m)
        /\ \A n \in Marks : HasPrefix(s, n) => Len(n) <= Len(m)

\* A program that reads one Value from a text that starts with a marker.
InitMark ==
    /\ val = Leaf("unit", <<>>)
    /\ ty = TValue
    /\ cfg = minimal
    /\ ser = NewSerializer
    /\ src \in Marks
    /\ res = NoResult
    /\ pc = "written"

\* One more character after the marker.
TypeAfterMark ==
    /\ pc = "written"
    /\ Len(src) < Len(MarkOf(src)) + MaxMark
    /\ \E c \in MarkAlphabet : src' = Append(src, c)
    /\ UNCHANGED <<val, ty, cfg, ser, res, pc>>

\* Deserializer::from_str on the text and T::deserialize(&mut der).
DeserializeText ==
    /\ pc = "written"
    /\ res' = Call("deserialize_any", <<NewDeserializer(src), ty>>)
    /\ pc' = "deserialized"
    /\ UNCHANGED <<val, ty, cfg, ser, src>>

NextMark ==
    \/ TypeAfterMark
    \/ DeserializeText

SpecMark == InitMark /\ [][NextMark]_vars

\* ------------------------------------- state machine: named forms

\* The most characters that follow the name.
MaxTail == 3

\* The characters that follow the name: % ( ) { } 1 , : and a blank.
TailAlphabet == {37, 40, 41, 123, 125, 49, 44, 58, 32}

\* The names: the variants E::U, E::N, E::T and E::S of an enum and the
\* head `(N)`.
Names == {<<69, 58, 58, 85>>, <<69, 58, 58, 78>>, <<69, 58, 58, 84>>,
          <<69, 58, 58, 83>>, <<40, 78, 41>>}

\* The longer texts after a name: `(1,true)`, `(1,)` and `{a:1}`.
LongTails == {<<40, 49, 44, 116, 114, 117, 101, 41>>, <<40, 49, 44, 41>>,
              <<123, 97, 58, 49, 125>>}

\* The name that the text s starts with.
NameOf(s) == CHOOSE m \in Names : HasPrefix(s, m)

\* The text s after its name.
TailOf(s) == Slice(s, Len(NameOf(s)), Len(s))

\* A program that reads the text of a name and what follows it: a variant
\* as the enum E of Values, the head `(N)` as a Value.
InitNamed ==
    /\ val = Leaf("unit", <<>>)
    /\ src \in Names
    /\ ty = IF src[1] = 40 THEN TValue ELSE EnumOver(TValue)
    /\ cfg = minimal
    /\ ser = NewSerializer
    /\ res = NoResult
    /\ pc = "written"

\* One more character after the name.
TypeAfterName ==
    /\ pc = "written"
    /\ \E c \in TailAlphabet \cup {97, 116, 114, 117, 101} :
          /\ \/ c \in TailAlphabet /\ Len(TailOf(src)) < MaxTail
             \/ \E l \in LongTails : HasPrefix(l, Append(TailOf(src), c))
          /\ src' = Append(src, c)
    /\ UNCHANGED <<val, ty, cfg, ser, res, pc>>

NextNamed ==
    \/ TypeAfterName
    \/ DeserializeText

SpecNamed == InitNamed /\ [][NextNamed]_vars

\* ------------------------------------- state machine: map keys

\* The most characters of the start of an entry.
MaxKey == 4

\* The characters of the start of an entry: U N : = > 1 % and a comma.
KeyAlphabet == {85, 78, 58, 61, 62, 49, 37, 44}

\* The longer starts of an entry: `U::U=>`, `E::N%1=>` and `N%1=>`.
LongKeys == {<<85, 58, 58, 85, 61, 62>>, <<69, 58, 58, 78, 37, 49, 61, 62>>,
             <<78, 37, 49, 61, 62>>}

\* The types of the key: Value, i64 and the enum E of Values.
KeyTypes == {TValue, TI64, EnumOver(TValue)}

\* A program that reads the key of the first entry of a map from the text
\* after `{`.
InitKey ==
    /\ val = Leaf("unit", <<>>)
    /\ src = <<>>
    /\ ty \in KeyTypes
    /\ cfg = minimal
    /\ ser = NewSerializer
    /\ res = NoResult
    /\ pc = "written"

\* One more character of the entry.
TypeKey ==
    /\ pc = "written"
    /\ \E c \in KeyAlphabet \cup {69} :
          /\ \/ c \in KeyAlphabet /\ Len(src) < MaxKey
             \/ \E l \in LongKeys : HasPrefix(l, Append(src, c))
          /\ src' = Append(src, c)
    /\ UNCHANGED <<val, ty, cfg, ser, res, pc>>

\* MapAccessor::next_key_seed with the seed of the key type, inside a map
\* that the parser has entered (one level of the recursion budget taken).
NextKey ==
    /\ pc = "written"
    /\ res' = Let(Call("next_key_seed",
                       <<[NewDeserializer(src) EXCEPT !.ttl = @ - 1], TRUE, ty>>),
                  LAMBDA k : Res(k.d, k.val, k.err))
    /\ pc' = "key"
    /\ UNCHANGED <<val, ty, cfg, ser, src>>

NextOfKey ==
    \/ TypeKey
    \/ NextKey

SpecKey == InitKey /\ [][NextOfKey]_vars

\* ------------------------------------- state machine: integers

\* The most digits of an integer literal.
MaxDigits == 3

\* A program that reads a decimal integer literal, with `-` or without, as
\* a Value.
InitNumber ==
    /\ val = Leaf("unit", <<>>)
    /\ src \in {<<>>, <<45>>}
    /\ ty = TValue
    /\ cfg = minimal
    /\ ser = NewSerializer
    /\ res = NoResult
    /\ pc = "written"

\* One more digit.
TypeDigit ==
    /\ pc = "written"
    /\ Len(SelectSeq(src, IsDigit)) < MaxDigits
    /\ \E c \in 48..57 : src' = Append(src, c)
    /\ UNCHANGED <<val, ty, cfg, ser, res, pc>>

NextNumber ==
    \/ TypeDigit
    \/ FromStr

SpecNumber == InitNumber /\ [][NextNumber]_vars

\* ------------------------------------- state machine: quoted literals

\* The most characters after the opening quote.
MaxQuoted == 3

\* The characters after the opening quote: a n " ' \ and e-acute.
QuotedAlphabet == {97, 110, 34, 39, 92, 233}

\* A program that takes one token from a text that opens a string `"` or
\* a byte string `b"`.
InitQuoted ==
    /\ val = Leaf("unit", <<>>)
    /\ src \in {<<34>>, <<98, 34>>}
    /\ ty = TValue
    /\ cfg = minimal
    /\ ser = NewSerializer
    /\ res = NoResult
    /\ pc = "written"

\* One more character of the literal.
TypeQuoted ==
    /\ pc = "written"
    /\ Len(src) < (IF src[1] = 98 THEN 2 ELSE 1) + MaxQuoted
    /\ \E c \in QuotedAlphabet : src' = Append(src, c)
    /\ UNCHANGED <<val, ty, cfg, ser, res, pc>>

\* Kexer::next on the text: res holds the lexer after it and the token,
\* as the Literal variant and its payload, or the error.
LexToken ==
    /\ pc = "written"
    /\ res' = Let(kex_next(NewDeserializer(src)), LAMBDA n :
                  Res(n[1], Leaf(n[2].lk, n[2].v), Error_raise(n[2].err)))
    /\ pc' = "lexed"
    /\ UNCHANGED <<val, ty, cfg, ser, src>>

NextQuoted ==
    \/ TypeQuoted
    \/ LexToken

SpecQuoted == InitQuoted /\ [][NextQuoted]_vars

\* ------------------------------------- state machine: layout

\* The values of minimize_after_depth that differ in what is written: 0
\* minimizes everything, one more than RECURSION_LIMIT nothing.
AfterDepths == 0..(RECURSION_LIMIT + 1)

\* [T; 0]: an array without elements, which serde writes with
\* serialize_tuple(0) and reads with deserialize_tuple(0).
WrapArray ==
    /\ MayWrap
    /\ val' = Node("tuple", <<>>)
    /\ ty' = Node("tuple", <<>>)
    /\ UNCHANGED <<cfg, ser, src, res, pc>>

\* value.serialize(&mut Serializer::new(writer, config)) with any
\* minimize_after_depth.
SerializeWith ==
    /\ pc = "build"
    /\ \E n \in AfterDepths :
          /\ cfg' = [comfort EXCEPT !.minimize_after_depth = n]
          /\ ser' = Ser(val, NewSerializer, cfg')
    /\ src' = ser'.dst
    /\ pc' = "written"
    /\ UNCHANGED <<val, ty, res>>

NextLayout ==
    \/ WrapSeq
    \/ WrapMap
    \/ WrapTuple
    \/ WrapArray
    \/ WrapStruct
    \/ SerializeWith
    \/ FromStr

SpecLayout == Init /\ [][NextLayout]_vars

\* ------------------------------------- state machine: paragraphs

\* The most characters after the `|` that opens the paragraph.
MaxParagraph == 5

\* The characters after it: a letter, a blank, a newline and the markers
\* | < and backtick.
ParagraphAlphabet == {97, 32, 10, 124, 60, 96}

\* A program that takes one token from a text that opens a paragraph.
InitParagraph ==
    /\ val = Leaf("unit", <<>>)
    /\ src = <<124>>
    /\ ty = TValue
    /\ cfg = minimal
    /\ ser = NewSerializer
    /\ res = NoResult
    /\ pc = "written"

\* One more character of the paragraph.
TypeParagraph ==
    /\ pc = "written"
    /\ Len(src) < 1 + MaxParagraph
    /\ \E c \in ParagraphAlphabet : src' = Append(src, c)
    /\ UNCHANGED <<val, ty, cfg, ser, res, pc>>

NextParagraph ==
    \/ TypeParagraph
    \/ LexToken

SpecParagraph == InitParagraph /\ [][NextParagraph]_vars

\* ------------------------------------- state machine: raw strings

\* The most characters after the quote that opens the raw string.
MaxRaw == 5

\* The characters after it: a letter, a quote, a backtick, a backslash
\* and a newline.
RawAlphabet == {97, 34, 96, 92, 10}

\* A program that takes one token from a text that opens a raw string with
\* one backtick or with two.
InitRaw ==
    /\ val = Leaf("unit", <<>>)
    /\ src \in {<<96, 34>>, <<96, 96, 34>>}
    /\ ty = TValue
    /\ cfg = minimal
    /\ ser = NewSerializer
    /\ res = NoResult
    /\ pc = "written"

\* One more character of the raw string.
TypeRaw ==
    /\ pc = "written"
    /\ Len(src) < Find(src, 0, 34) + 1 + MaxRaw
    /\ \E c \in RawAlphabet : src' = Append(src, c)
    /\ UNCHANGED <<val, ty, cfg, ser, res, pc>>

NextRaw ==
    \/ TypeRaw
    \/ LexToken

SpecRaw == InitRaw /\ [][NextRaw]_vars

\* ------------------------------------- state machine: identifiers

\* The most parts that a name is made of.
MaxParts == 3

\* The parts of the names: the four reserved words, the start of one, an
\* underscore, a letter, a three-byte letter and a digit.
NameParts == {KwTrue, KwFalse, KwInf, KwNaN, <<116, 114, 117>>, <<95>>, <<120>>, <<20013>>, <<49>>}

\* The names of at most n parts, the empty one included.
RECURSIVE IdentsOf(_)
IdentsOf(n) ==
    IF n = 0 THEN {<<>>}
    ELSE IdentsOf(n - 1) \cup {name \o part : name \in IdentsOf(n - 1), part \in NameParts}

\* A program that has a unit variant under some name (an identifier: it
\* is not empty and does not start with a digit), writes the name and
\* takes one token from the text.
InitIdent ==
    /\ \E name \in IdentsOf(MaxParts) :
          /\ name # <<>>
          /\ name[1] # 49
          /\ val = Val("unit_variant", <<69>>, name, <<>>, <<>>)
    /\ ty = TValue
    /\ cfg = minimal
    /\ ser = NewSerializer
    /\ src = <<>>
    /\ res = NoResult
    /\ pc = "build"

\* Serializer::write_ident of the name.
WriteIdent ==
    /\ pc = "build"
    /\ ser' = write_ident(NewSerializer, val.n)
    /\ src' = ser'.dst
    /\ pc' = "written"
    /\ UNCHANGED <<val, ty, cfg, res>>

NextIdent ==
    \/ WriteIdent
    \/ LexToken

SpecIdent == InitIdent /\ [][NextIdent]_vars

\* ------------------------------------------------------------ claims

C2_TextRoundTrip ==
    (pc = "parsed" /\ val.k \in {"char", "str"}) =>
        (res.err.kind = "" /\ res.val = val)

\* C3: the text written for a byte string, in any of the four flavors, is
\* read back as that byte string.
C3_BytesRoundTrip ==
    (pc = "parsed" /\ val.k = "bytes") =>
        (res.err.kind = "" /\ res.val = val)

\* C4: the text written for a Value without enum variants is read back
\* into a Value equal to the one written.
C4_ValueRoundTrip ==
    (pc = "parsed" /\ ty = TValue /\ Depth(val) < RECURSION_LIMIT) =>
        (res.err.kind = "" /\ res.val = val)

\* A document of one or more `?`, or of one or more `%`.
DeepDocument == src # <<>> /\ src[1] \in {63, 37} /\ Repeats(src)

LineOf(s, p) == 1 + Cardinality({i \in 1..p : s[i] = 10})

\* The column (from 1) of the character at index p (from 0) of the text s.
ColOf(s, p) ==
    LET nl == {i \in 1..p : s[i] = 10}
    IN  p + 1 - (IF nl = {} THEN 0 ELSE CHOOSE i \in nl : \A j \in nl : j <= i)

\* C7: an error of from_str for a lexical or syntactic failure carries a
\* line, and unless it is UnexpectedNewline its line and column are those
\* of the start of the token that failed, also when that token follows the
\* top-level value.
C7_ErrorLocated ==
    (pc = "parsed" /\ res.err.kind \notin {"", "Custom"}) =>
        /\ res.err.line # 0
        /\ res.err.kind # "UnexpectedNewline" =>
              /\ res.err.line = LineOf(src, res.d.start)
              /\ res.err.col = ColOf(src, res.d.start)

\* A document that starts with a string, a byte string or a char literal
\* whose first line ends before the literal is closed: "..LF, b"..LF, 'LF
\* or 'cLF.
BrokenLiteral ==
    \E j \in 1..Len(src) :
        /\ src[j] = 10
        /\ \/ src[1] = 34 /\ \A i \in 2..(j - 1) : src[i] \notin {34, 10}
           \/ /\ j > 2 /\ src[1] = 98 /\ src[2] = 34
              /\ \A i \in 3..(j - 1) : src[i] \notin {34, 10}
           \/ src[1] = 39 /\ j <= 3 /\ \A i \in 2..(j - 1) : src[i] \notin {39, 10}

\* C8: a string, byte string or char literal broken by a newline fails
\* with UnexpectedNewline, without a column and with the line after that
\* newline.
C8_BrokenLiteral ==
    (pc = "parsed" /\ BrokenLiteral) =>
        /\ res.err.kind = "UnexpectedNewline"
        /\ res.err.col = 0
        /\ res.err.line = 2

RECURSIVE Trunc(_, _)
\* The value v with every element that is nested deeper than n levels
\* replaced by ().
Trunc(v, n) ==
    IF Depth(v) = 0 THEN v
    ELSE IF v.k \in {"field", "entry"}
    THEN [v EXCEPT !.xs = [i \in 1..Len(v.xs) |-> Trunc(v.xs[i], n)]]
    ELSE IF n = 0 THEN Leaf("unit", <<>>)
    ELSE [v EXCEPT !.xs = [i \in 1..Len(v.xs) |-> Trunc(v.xs[i], n - 1)]]

\* C6: serializing a value nested deeper than the recursion limit fails
\* with ExceededRecursionLimit, and the writer then holds only what is
\* written before the level beyond the limit: the text of the value cut at
\* the limit, up to the place of that level.
C6_NothingBeyondLimit ==
    (pc = "written" /\ Depth(val) > RECURSION_LIMIT) =>
        /\ ser.err = "ExceededRecursionLimit"
        /\ StartsWith(to_string(Trunc(val, RECURSION_LIMIT), cfg).dst, 0,
                      ser.dst \o <<40, 41>>)

\* The text that follows what T::deserialize read of src.
Rest(d) == Slice(d.src, d.offset, Len(d.src))

\* A text that holds a token of the tails: a comma or a digit.
HoldsToken(s) == \E i \in 1..Len(s) : s[i] \in {44, 49}

\* C9 (as stated): from_str of the written value followed by more text
\* returns Ok only if that text holds no token, and fails with ExpectedEof
\* when it holds one.  from_str has returned when T::deserialize failed or
\* finish was called.
C9_TokenAfterValue ==
    LET tail == Slice(src, Len(ser.dst), Len(src))
    IN  (pc = "finished" \/ (pc = "deserialized" /\ res.err.kind # "")) =>
            /\ res.err.kind = "" => ~HoldsToken(tail)
            /\ HoldsToken(tail) => res.err.kind = "ExpectedEof"

\* C9 (amended): when T::deserialize has succeeded, from_str returns Ok
\* only if no token follows what T::deserialize read, and fails with
\* ExpectedEof if a token follows it.
C9_TokenAfterRead ==
    [][(pc = "deserialized" /\ pc' = "finished") =>
          /\ res'.err.kind = "" => ~HoldsToken(Rest(res.d))
          /\ HoldsToken(Rest(res.d)) => res'.err.kind = "ExpectedEof"]_vars

\* C9 (witness): a map of tuples followed by a blank and the literal 1 was
\* refused with ExpectedEof at the 1.
C9_Witness ==
    /\ pc = "finished"
    /\ val.k = "map"
    /\ Len(val.xs) = MaxLen
    /\ val.xs[1].xs[2].k = "tuple"
    /\ src = ser.dst \o <<32, 49>>
    /\ res.err = [kind |-> "ExpectedEof", line |-> 1, col |-> Len(src)]

\* C10: after T::deserialize has read the written value from a longer
\* input, offset() is the byte length of the value's text: the tokens that
\* were only peeked and the text after the value do not move it.
C10_Offset ==
    (pc = "deserialized" /\ res.err.kind = "" /\ res.val = val) =>
        offset(res.d) = ByteLen(ser.dst)

\* C10 (witness): Some(()) followed by a comma was read; the comma was
\* peeked and the offset is that of the value's end.
C10_Witness ==
    /\ pc = "deserialized"
    /\ val = Node("some", <<Leaf("unit", <<>>)>>)
    /\ cfg = minimal
    /\ src = ser.dst \o <<44>>
    /\ res.err.kind = ""
    /\ res.val = val
    /\ res.d.peeked.r = "tok"
    /\ offset(res.d) = 3

\* The text s without its leading blanks and newlines.
Unblank(s) == Slice(s, RunEnd(s, 0, LAMBDA c : c \in {32, 10}), Len(s))

\* Whether the text s, read as tokens, ends or starts with one of the six
\* delimiters , : => ) ] }.
DelimiterOrEnd(s) ==
    LET t == Unblank(s)
    IN  \/ t = <<>>
        \/ t[1] \in {44, 41, 93, 125}
        \/ t[1] = 58 /\ At(t, 1) # 58
        \/ t[1] = 61 /\ At(t, 1) = 62

\* C11: `?` before the end of the input or a delimiter is None and `%`
\* there is the sequence of no elements, with nothing more read; before
\* any other token `?` is Some and `%` the newtype of the value that
\* follows, or that value's error.
C11_Lookahead ==
    (pc = "deserialized" /\ src[1] \in {63, 37}) =>
        LET inner == Call("deserialize_any",
                          <<[NewDeserializer(Tail(src)) EXCEPT !.ttl = @ - 1], ty>>)
        IN  IF DelimiterOrEnd(Tail(src))
            THEN /\ res.err.kind = ""
                 /\ res.val = IF src[1] = 63 THEN Leaf("none", <<>>) ELSE Node("seq", <<>>)
                 /\ offset(res.d) = 1
            ELSE /\ res.err.kind = inner.err.kind
                 /\ res.err.kind = "" =>
                       res.val = Node(IF src[1] = 63 THEN "some" ELSE "newtype_struct",
                                      <<inner.val>>)

\* C11 (witness): `% =>` was read as the sequence of no elements.
C11_Witness ==
    /\ pc = "deserialized"
    /\ src = <<37, 32, 61, 62>>
    /\ res.val = Node("seq", <<>>)
    /\ res.err.kind = ""

RECURSIVE Skip(_, _)
\* The deserializer d after n more tokens were taken from it.
Skip(d, n) == IF n = 0 THEN d ELSE Skip(kex_next(d)[1], n - 1)

\* C12: after the head `()` or `(Name)`, the end of the input or a
\* delimiter gives unit with nothing more read, `(` a docile tuple read as
\* a sequence, `{` the map and `%` the mayary that these texts are without
\* the head, and any other token the error ExpectedNonUnitStruct.
C12_AfterHead ==
    (pc = "deserialized" /\ MarkOf(src) \in {<<40, 41>>, <<40, 78, 41>>}) =>
        LET h == Len(MarkOf(src))
            tail == Unblank(Slice(src, h, Len(src)))
            alone == Call("deserialize_any", <<NewDeserializer(tail), ty>>)
            tuple == Call("parse_tuple",
                          <<Skip([NewDeserializer(src) EXCEPT !.ttl = @ - 1], h + 1),
                            ty, TRUE, <<>>>>)
            other == kex_peek(NewDeserializer(tail))[2]
        IN  CASE DelimiterOrEnd(tail) ->
                    /\ res.err.kind = ""
                    /\ res.val = Leaf("unit", <<>>)
                    /\ offset(res.d) = h
              [] tail # <<>> /\ tail[1] = 40 ->
                    /\ res.err.kind = tuple.err.kind
                    /\ res.err.kind = "" => res.val = tuple.val /\ res.val.k = "seq"
              [] tail # <<>> /\ tail[1] \in {123, 37} ->
                    /\ res.err.kind = alone.err.kind
                    /\ res.err.kind = "" =>
                          res.val = alone.val /\ res.val.k \in {"map", "seq", "newtype_struct"}
              [] OTHER ->
                    res.err.kind = IF other.r = "err" THEN other.err
                                   ELSE "ExpectedNonUnitStruct"

\* C12 (witness): `(N)(1)` was read as the sequence of one element.
C12_Witness ==
    /\ pc = "deserialized"
    /\ src = <<40, 78, 41, 40, 49, 41>>
    /\ res.err.kind = ""
    /\ res.val.k = "seq"
    /\ Len(res.val.xs) = 1

\* The text s without its trailing blanks and newlines.
Untail(s) ==
    IF s # <<>> /\ s[Len(s)] \in {32, 10} THEN
        Slice(s, 0, CHOOSE i \in 0..Len(s) :
                        /\ \A j \in (i + 1)..Len(s) : s[j] \in {32, 10}
                        /\ i > 0 => s[i] \notin {32, 10})
    ELSE s

\* C13: a parenthesis form without a head, `(V, ...)` and `(N::V, ...)`
\* included, is never read as a tuple of no elements, and as a tuple of
\* one element only when a comma stands before `)`; without the comma it
\* is refused with ExpectedComma.
C13_StrictTuple ==
    (/\ pc = "deserialized"
     /\ \/ MarkOf(src) = <<40, 78, 58, 58, 86>>
        \/ MarkOf(src) = <<40>> /\ ~HasPrefix(Unblank(Tail(src)), <<41>>)) =>
        LET read == Slice(src, 0, offset(res.d))
            body == Untail(Slice(read, 0, Len(read) - 1))
        IN  /\ res.err.kind = "" =>
                  /\ res.val.k = "seq"
                  /\ Len(res.val.xs) > 0
                  /\ Len(res.val.xs) = 1 => body[Len(body)] = 44
            /\ src \in {<<40, 49, 41>>, <<40, 63, 41>>, <<40, 49, 32, 41>>,
                        <<40, 91, 93, 41>>, <<40, 37, 49, 41>>} =>
                  res.err.kind = "ExpectedComma"

\* Whether the text s after a variant name starts a new token that is not
\* `::`: it goes on neither the identifier nor the path.
IsVariantTail(s) ==
    /\ s # <<>> => ~is_xid_continue(s[1])
    /\ ~HasPrefix(Unblank(s), <<58, 58>>)

\* C14: the name does not change what is read: `(N)` and a tail gives
\* what `(M)` and `()` give with that tail, and `E::V` and a variant tail
\* gives what `M::V` and the bare `V` give with it: the same value or the
\* same kind of error.
C14_NamesIgnored ==
    (pc = "deserialized" /\ (src[1] = 40 \/ IsVariantTail(TailOf(src)))) =>
        LET others == IF src[1] = 40
                      THEN {<<40, 41>>, <<40, 77, 41>>}
                      ELSE {<<src[4]>>, <<77, 58, 58, src[4]>>}
        IN  \A o \in others :
                LET r == Call("deserialize_any", <<NewDeserializer(o \o TailOf(src)), ty>>)
                IN  /\ r.err.kind = res.err.kind
                    /\ r.val = res.val

\* C14 (witness): `E::N%1` was read as the variant N of 1.
C14_Witness ==
    /\ pc = "deserialized"
    /\ src = <<69, 58, 58, 78, 37, 49>>
    /\ res.err.kind = ""
    /\ res.val.k = "newtype_variant"
    /\ res.val.xs = <<Leaf("u64", <<1>>)>>

\* C15: the kind of the variant decides what may follow its name.  A unit
\* variant is read when the input ends or a delimiter follows; a newtype
\* variant reads `%` and a value, or `(`, a value, a comma or none, and
\* `)`; a tuple variant reads `%` as no elements or `(` as a docile tuple;
\* a struct variant reads `{`; any other token is refused with the
\* Expected...Variant error of the kind.
C15_VariantTail ==
    (/\ pc = "deserialized"
     /\ src[1] = 69
     /\ TailOf(src) = <<>> \/ ~is_xid_continue(TailOf(src)[1])) =>
        LET tail == TailOf(src)
            first == kex_peek(NewDeserializer(tail))[2]
            after == Slice(tail, first.end, Len(tail))
            inner == Call("deserialize_any",
                          <<[NewDeserializer(after) EXCEPT !.ttl = @ - 1], TValue>>)
            close == Unblank(Slice(after, inner.d.offset, Len(after)))
            closed == HasPrefix(close, <<41>>)
                      \/ (HasPrefix(close, <<44>>) /\ HasPrefix(Unblank(Tail(close)), <<41>>))
            beyond == kex_peek(NewDeserializer(
                          IF HasPrefix(close, <<44>>) THEN Tail(close) ELSE close))[2]
            is(k) == first.r = "tok" /\ first.k = k
        IN  CASE src[4] = 85 ->
                    /\ DelimiterOrEnd(tail) =>
                          /\ res.err.kind = ""
                          /\ res.val = Val("unit_variant", <<69>>, <<85>>, <<>>, <<>>)
                          /\ offset(res.d) = 4
                    /\ (first.r = "tok" /\ ~DelimiterOrEnd(tail)) =>
                          res.err.kind = "ExpectedUnitVariant"
              [] src[4] = 78 ->
                    /\ is("Percent") =>
                          /\ res.err.kind = inner.err.kind
                          /\ res.err.kind = "" =>
                                res.val = Val("newtype_variant", <<69>>, <<78>>, <<>>,
                                              <<inner.val>>)
                    /\ (is("Paren_") /\ inner.err.kind # "") =>
                          res.err.kind = inner.err.kind
                    /\ (is("Paren_") /\ inner.err.kind = "" /\ closed) =>
                          /\ res.err.kind = ""
                          /\ res.val = Val("newtype_variant", <<69>>, <<78>>, <<>>,
                                           <<inner.val>>)
                    /\ (is("Paren_") /\ inner.err.kind = "" /\ beyond.r = "tok"
                        /\ beyond.k # "_Paren") =>
                          res.err.kind = "ExpectedNewtypeVariant"
                    /\ (first.r = "tok" /\ ~is("Percent") /\ ~is("Paren_")) =>
                          res.err.kind = "ExpectedNewtypeVariant"
              [] src[4] = 84 ->
                    /\ is("Percent") => res.err.kind = "Custom"
                    /\ is("Paren_") =>
                          /\ res.err.kind # "ExpectedTupleVariant"
                          /\ res.err.kind = "" =>
                                res.val.k = "tuple_variant" /\ Len(res.val.xs) = 2
                          /\ Unblank(after) \in {<<41>>, <<49, 41>>} =>
                                res.err.kind = "Custom"
                    /\ (first.r = "tok" /\ ~is("Percent") /\ ~is("Paren_")) =>
                          res.err.kind = "ExpectedTupleVariant"
              [] OTHER ->
                    /\ is("Brace_") =>
                          /\ res.err.kind # "ExpectedStructVariant"
                          /\ res.err.kind = "" => res.val.k = "struct_variant"
                    /\ (first.r = "tok" /\ ~is("Brace_")) =>
                          res.err.kind = "ExpectedStructVariant"

\* C15 (witness): `E::T(1,true)` was read as the tuple variant.
C15_Witness ==
    /\ pc = "deserialized"
    /\ src = <<69, 58, 58, 84, 40, 49, 44, 116, 114, 117, 101, 41>>
    /\ res.err.kind = ""
    /\ res.val.k = "tuple_variant"

RECURSIVE Magnitude(_)
\* The number that the decimal digits ds write.
Magnitude(ds) ==
    IF ds = <<>> THEN 0 ELSE 10 * Magnitude(Slice(ds, 0, Len(ds) - 1)) + (ds[Len(ds)] - 48)

C18_IntNegative ==
    (pc = "parsed" /\ res.err.kind = "" /\ res.val.k = "i64") => res.val.v[1] < 0

\* C19: a string literal or byte literal without an escape is lexed to
\* the borrowed variant, Literal::Str or Literal::Bytes, and only one with
\* an escape to the owned Literal::String or Literal::ByteBuf.
C19_BorrowedUnlessEscaped ==
    (pc = "lexed" /\ res.err.kind = "" /\ res.val.k # "") =>
        LET escaped == \E i \in 1..res.d.offset : src[i] = 92
        IN  res.val.k = CASE src[1] = 34 /\ ~escaped -> "Str"
                          [] src[1] = 34 -> "String"
                          [] ~escaped -> "Bytes"
                          [] OTHER -> "ByteBuf"

C21_PercentForm ==
    (/\ pc \in {"written", "parsed"}
     /\ cfg = comfort
     /\ ser.err = ""
     /\ val.k \in {"newtype_struct", "newtype_variant"}) =>
        LET v == Ser(val.xs[1], [NewSerializer EXCEPT !.dep = 1], cfg).dst
        IN  /\ ser.dst = CASE val.k = "newtype_struct" ->
                                  <<40>> \o val.ty \o <<41, 32, 37, 32>> \o v
                           [] OTHER ->
                                  val.ty \o <<58, 58>> \o val.n \o <<32, 37, 32>> \o v
            /\ pc = "parsed" => (res.err.kind = "" /\ res.val = val)

\* The index of the last character before index i of the text s that is
\* neither a blank nor a newline, 0 when there is none.
Before(s, i) ==
    LET found == {j \in 1..(i - 1) : s[j] \notin {32, 10}}
    IN  IF found = {} THEN 0 ELSE CHOOSE j \in found : \A k \in found : k <= j

RECURSIVE OneTuples(_)
\* A value whose text has no parentheses but those of tuples of exactly
\* one element: numbers, strings and booleans in sequences, maps and such
\* tuples.
OneTuples(v) ==
    CASE v.k \in {"i64", "u64", "bool", "str"} -> TRUE
      [] v.k \in {"seq", "map", "entry"} -> \A i \in 1..Len(v.xs) : OneTuples(v.xs[i])
      [] v.k = "tuple" -> Len(v.xs) = 1 /\ OneTuples(v.xs[1])
      [] OTHER -> FALSE

\* C22: in the text written with any minimize_after_depth, the `)` that
\* closes a tuple of one element at any depth comes (blanks and newlines
\* aside) after exactly one comma, and that comma after the element: never
\* no comma and never two.
C22_OneComma ==
    (pc = "written" /\ ser.err = "" /\ OneTuples(val)) =>
        \A i \in 1..Len(src) :
            src[i] = 41 =>
                LET j == Before(src, i)
                    k == Before(src, j)
                IN  /\ j > 0 /\ src[j] = 44
                    /\ k > 0 /\ src[k] \notin {44, 40}

\* C22 (witness): ((-3,),) was written with minimize_after_depth 1: the
\* inner tuple is closed in minimized form and the outer one in verbose
\* form, each after one comma.
C22_Witness ==
    /\ pc = "written"
    /\ val = Node("tuple", <<Node("tuple", <<Leaf("i64", <<-3>>)>>)>>)
    /\ cfg.minimize_after_depth = 1
    /\ src = <<40, 40, 45, 51, 44, 41, 44, 10, 41>>

\* The index of the first character of the line of s that holds index i.
LineStart(s, i) ==
    LET nl == {j \in 1..(i - 1) : s[j] = 10}
    IN  IF nl = {} THEN 1 ELSE 1 + CHOOSE j \in nl : \A k \in nl : k <= j

\* The number of blanks that the line of s that holds index i starts with.
Indent(s, i) ==
    LET from == LineStart(s, i)
        stop == {j \in from..Len(s) : s[j] # 32}
    IN  IF stop = {} THEN Len(s) + 1 - from
        ELSE (CHOOSE j \in stop : \A k \in stop : j <= k) - from

\* Whether index i is the first character of its line after the blanks.
OwnLine(s, i) == i = LineStart(s, i) + Indent(s, i)

\* The number of containers of the text s that are open before index i.
OpenAt(s, i) ==
    Cardinality({j \in 1..(i - 1) : s[j] \in {40, 91, 123}})
        - Cardinality({j \in 1..(i - 1) : s[j] \in {41, 93, 125}})

\* The index of the opening delimiter that the closing one at index c of
\* s closes.
Opener(s, c) ==
    LET found == {o \in 1..(c - 1) : s[o] \in {40, 91, 123} /\ OpenAt(s, o) = OpenAt(s, c) - 1}
    IN  CHOOSE o \in found : \A k \in found : k <= o

RECURSIVE Plain(_)
\* A value whose text has no delimiters but those of its sequences,
\* tuples and maps, and for which the depth of the serializer is the number
\* of open delimiters.
Plain(v) ==
    CASE v.k \in {"i64", "u64", "bool", "str", "unit"} -> TRUE
      [] v.k \in {"seq", "map", "entry", "tuple"} ->
            \A i \in 1..Len(v.xs) : Plain(v.xs[i])
      [] OTHER -> FALSE

\* Whether the container of s that the delimiter at index c closes has
\* elements, and was opened at a depth below minimize_after_depth.
VerboseContainer(s, c) ==
    /\ s[c] \in {41, 93, 125}
    /\ Before(s, c) # Opener(s, c)
    /\ OpenAt(s, Opener(s, c)) < cfg.minimize_after_depth

\* The layout of that container: every element (what follows the opener
\* or a comma of the container, the closing delimiter aside) starts a line
\* indented four blanks for each level, a comma follows the last element,
\* and the closing delimiter starts a line indented as the opener's line.
LaidOut(s, c) ==
    LET o == Opener(s, c)
        level == OpenAt(s, o) + 1
        elements == {p \in (o + 1)..(c - 1) :
                        /\ s[p] \notin {32, 10}
                        /\ OpenAt(s, p) = level
                        /\ \/ Before(s, p) = o
                           \/ s[Before(s, p)] = 44 /\ s[p] # 44}
    IN  /\ \A p \in elements : OwnLine(s, p) /\ Indent(s, p) = 4 * level
        /\ s[Before(s, c)] = 44
        /\ OwnLine(s, c)
        /\ Indent(s, c) = Indent(s, o)

\* C23: in the text written with any minimize_after_depth, every sequence,
\* tuple or map that has elements and is opened at a depth below
\* minimize_after_depth has each element on a line of its own, indented
\* four blanks per level and followed by a comma, and its closing delimiter
\* on a line of its own, indented as the line of the opener.
C23_VerboseLayout ==
    (pc = "written" /\ ser.err = "" /\ Plain(val)) =>
        \A c \in 1..Len(src) : VerboseContainer(src, c) => LaidOut(src, c)

RECURSIVE LinesOf(_)
\* The lines of the text s, without their newlines.
LinesOf(s) ==
    LET nl == Find(s, 0, 10)
    IN  IF nl = -1 THEN <<s>>
        ELSE <<Slice(s, 0, nl)>> \o LinesOf(Slice(s, nl + 1, Len(s)))

\* The marker of a line: its first character after the blanks, -1 when it
\* has none.
MarkerOf(l) == At(l, RunEnd(l, 0, IsBlank))

\* The trimmed text of a line with a marker: what follows the marker,
\* without one blank after it and without the white space at its end.
TextOf(l) ==
    LET from == RunEnd(l, 0, IsBlank) + 1
        rest == Slice(l, IF At(l, from) = 32 THEN from + 1 ELSE from, Len(l))
        keep == {i \in 1..Len(rest) : ~IsWhite(rest[i])}
    IN  IF keep = {} THEN <<>>
        ELSE SubSeq(rest, 1, CHOOSE i \in keep : \A k \in keep : k <= i)

RECURSIVE Continued(_, _, _, _)
\* The text s continued by the lines ls under the three rules; the text
\* is newlined when the last line added a newline and nothing after it.
\* A non-empty `|` line adds its separator space always, or only when the
\* text is not newlined.
Continued(ls, s, newlined, always) ==
    IF ls = <<>> THEN s
    ELSE LET l == Head(ls)
             text == TextOf(l)
         IN  CASE MarkerOf(l) = 96 ->
                     Continued(Tail(ls), s \o <<10>> \o text, text = <<>>, always)
               [] MarkerOf(l) # 96 /\ text = <<>> ->
                     Continued(Tail(ls), IF newlined THEN s ELSE Append(s, 10), TRUE, always)
               [] OTHER ->
                     Continued(Tail(ls),
                               (IF MarkerOf(l) = 124 /\ (always \/ ~newlined)
                                THEN Append(s, 32) ELSE s) \o text,
                               FALSE, always)

\* A text that is one paragraph: every line after the first has a marker.
IsParagraph(s) ==
    \A i \in 2..Len(LinesOf(s)) : MarkerOf(LinesOf(s)[i]) \in {124, 60, 96}

\* The literal that a paragraph is decoded to: the borrowed Str of the
\* first line when no line continues it, or else the owned String.
Decoded(s, always) ==
    LET ls == LinesOf(s)
    IN  IF Len(ls) = 1 THEN Leaf("Str", TextOf(ls[1]))
        ELSE Leaf("String", Continued(Tail(ls), TextOf(ls[1]), FALSE, always))

\* C24 (as stated): a paragraph is decoded by the three rules with the
\* separator space before the text of every non-empty `|` line: an empty
\* `|` or `<` line adds one newline unless the text is newlined, a
\* non-empty `|` line a space and its trimmed text, a non-empty `<` line
\* its trimmed text, a backtick line a newline and its trimmed text; a
\* paragraph of one line is a borrowed Str.
C24_SpaceAlways ==
    (pc = "lexed" /\ IsParagraph(src)) =>
        /\ res.err.kind = ""
        /\ res.val = Decoded(src, TRUE)
        /\ res.d.offset = Len(src)

\* C24 (amended): the same, but a non-empty `|` line adds its separator
\* space only when the text is not newlined.
C24_SpaceUnlessNewlined ==
    (pc = "lexed" /\ IsParagraph(src)) =>
        /\ res.err.kind = ""
        /\ res.val = Decoded(src, FALSE)
        /\ res.d.offset = Len(src)

\* C24 (witness): the paragraph of an empty first line, an empty `|` line
\* and the `|` line of a letter was decoded to a newline and the letter,
\* without a space between them.
C24_Witness ==
    /\ pc = "lexed"
    /\ src = <<124, 10, 124, 10, 124, 97>>
    /\ res.err.kind = ""
    /\ res.val = Leaf("String", <<10, 97>>)

\* The number of backticks that open the raw string s, and the number of
\* backticks that follow index i of s.
OpenTicks(s) == Find(s, 0, 34)

TicksAfter(s, i) == RunEnd(s, i, IsBacktick) - i

\* The indices after the opening quote of the raw string s that hold a
\* quote followed by at least as many backticks as opened it; a quote
\* followed by fewer is content.
Closers(s) ==
    {i \in (OpenTicks(s) + 2)..Len(s) : s[i] = 34 /\ TicksAfter(s, i) >= OpenTicks(s)}

\* C25: a raw string opened with N backticks is closed by the first quote
\* after the opening one that is followed by N backticks or more: by
\* exactly N, the literal is the borrowed text between the opening quote
\* and that quote, unchanged, and the token ends after the N backticks; by
\* more than N, the token fails with UnbalancedLiteralClose; and a text
\* without such a quote fails with UnexpectedEof.
C25_RawString ==
    pc = "lexed" =>
        IF Closers(src) = {} THEN res.err.kind = "UnexpectedEof"
        ELSE LET i == CHOOSE i \in Closers(src) : \A k \in Closers(src) : i <= k
             IN  IF TicksAfter(src, i) > OpenTicks(src)
                 THEN res.err.kind = "UnbalancedLiteralClose"
                 ELSE /\ res.err.kind = ""
                      /\ res.val = Leaf("Str", SubSeq(src, OpenTicks(src) + 2, i - 1))
                      /\ res.d.offset = i + OpenTicks(src)

\* C26: a text that the serializer has written without an error, at any
\* nesting that it allows (RECURSION_LIMIT levels around a value without
\* elements included), is read by from_str into the value's type without
\* ExceededRecursionLimit.
C26_BudgetsAgree ==
    (pc = "parsed" /\ ser.err = "") => res.err.kind # "ExceededRecursionLimit"

\* C27: an identifier that the serializer has written is read back by the
\* lexer as one identifier token with the same name, whatever reserved
\* word the name starts with: the token is an Ident, carries the name, and
\* ends where the text ends.
C27_IdentRoundTrip ==
    (pc = "lexed" /\ val.k = "unit_variant")
        => /\ res.err.kind = ""
           /\ res.val = Leaf("", val.n)
           /\ res.d.offset = Len(src)

\* C28: a tuple keeps its shape: the text that serialize_tuple(n), the n
\* elements and end have written is read back into the tuple's type through
\* visit_seq, as a tuple of exactly n elements, for every n from 0 on.
C28_TupleShape ==
    (pc = "parsed" /\ val.k = "tuple")
        => /\ res.err.kind = ""
           /\ res.val.k = "tuple"
           /\ Len(res.val.xs) = Len(val.xs)

\* C29: the closing delimiter of a sequence, a tuple or a map is consumed
\* by the accessor call that delivers the last element or the last value
\* (by the accessor's constructor when there is none): when the value has
\* been read from a longer input, by a visitor that polls for the end (a
\* Vec, a map, a Value) or by one that reads exactly its elements (a tuple),
\* the lexer stands just past the closer, which is the last character of
\* the written text, and nothing is peeked, so that the next token the
\* parser sees is the first one of what follows.
C29_CloserConsumed ==
    (pc = "deserialized" /\ res.err.kind = "" /\ val.k \in {"seq", "tuple", "map"})
        => /\ res.d.offset = Len(ser.dst)
           /\ res.d.pos = Len(ser.dst)
           /\ res.d.peeked.r = "none"
           /\ kex_peek(res.d)[2] = kex_peek(NewDeserializer([i \in 1..Len(src) |->
                                      IF i <= Len(ser.dst) THEN 32 ELSE src[i]]))[2]

\* A pair read from the text `(-3,true) 1` by the visitor of a tuple, which
\* asks for two elements and never for a third: the parser stands after
\* the parenthesis.
C29_Witness ==
    /\ pc = "deserialized"
    /\ val = Node("tuple", <<Leaf("i64", <<-3>>), Leaf("bool", <<1>>)>>)
    /\ src = <<40, 45, 51, 44, 116, 114, 117, 101, 41, 32, 49>>
    /\ res.err.kind = ""
    /\ res.val = val
    /\ res.d.offset = 9
    /\ kex_peek(res.d)[2].lk = "UInt"

\* C30: deserialize_any leaves the recursion budget as it found it: when
\* the call on a new Deserializer has returned, with a value or with any
\* error, ExceededRecursionLimit included, ttl is RECURSION_LIMIT again.
C30_BudgetRestored ==
    pc = "deserialized" => res.d.ttl = RECURSION_LIMIT

\* A text of one `?` more than the budget allows: the innermost call has
\* failed with ExceededRecursionLimit, every call around it has returned
\* that error, and the budget is whole.
C30_Witness ==
    /\ pc = "deserialized"
    /\ Len(src) = RECURSION_LIMIT + 1
    /\ \A i \in 1..Len(src) : src[i] = 63
    /\ res.err.kind = "ExceededRecursionLimit"
    /\ res.d.ttl = RECURSION_LIMIT

====
